---- MODULE Spec2Model ----
(***************************************************************************)
(* Verification model of the pursuit game (ai_platform_trainer).           *)
(*                                                                         *)
(* The module holds six state machines over disjoint variables:            *)
(*   - the engagement machine: a shooter (Player, PlayerPlay,              *)
(*     PlayerTraining), its missile list and TrainingMode.update;          *)
(*   - the pattern machine: one EnemyTraining or PlayerTraining agent and  *)
(*     its pattern timers;                                                 *)
(*   - the wrap machine: the three screen-wrap implementations;            *)
(*   - the fade machine: Enemy.show / Enemy.update_fade_in;                *)
(*   - the game machine: the Game object, its modes and its tick;          *)
(*   - the movement machine: update_movement of the model-driven enemies.  *)
(* Each machine has its own specification; the variables of the other      *)
(* machines keep their initial value in it.                                *)
(*                                                                         *)
(* Positions are integers.  Missile velocities are the integer vectors of  *)
(* length 5 (the missile speed), so that position += velocity stays on     *)
(* the integer grid.  The screen is a small window (ScreenW x ScreenH);    *)
(* the entity size, missile speed, lifespans, cool-downs and timer ranges  *)
(* keep the values of the source.                                          *)
(***************************************************************************)
EXTENDS Integers, Sequences, FiniteSets, TLC

VARIABLES
    \* ---- engagement machine
    shooter,            \* class of the player object: "Player" | "PlayerPlay" | "PlayerTraining"
    clock,              \* pygame.time.get_ticks(), ms
    player_pos,         \* player.position
    enemy_pos,          \* enemy.pos
    enemy_visible,      \* enemy.visible
    missiles,           \* player.missiles: sequence of missile records
    next_id,            \* identity of the next Missile object constructed
    missile_cooldown,   \* TrainingMode.missile_cooldown
    missile_lifespan,   \* TrainingMode.missile_lifespan: id -> <<birth_time, lifespan>>
    missile_sequences,  \* TrainingMode.missile_sequences: id -> frames
    is_respawning,      \* Game.is_respawning
    respawn_timer,      \* Game.respawn_timer
    finalize_log,       \* every finalize_missile_sequence call: <<id, success>>
    respawn_calls,      \* number of respawner.respawn_enemy calls
    managed,            \* TRUE when a TrainingMode object drives the player
    last_op,            \* the operation that produced this state
    last_tick,          \* what the last missile step did with the missile it processed
    \* ---- pattern machine (one EnemyTraining or PlayerTraining object)
    agent,              \* class of the object: "EnemyTraining" | "PlayerTraining"
    current_pattern,    \* self.current_pattern
    state_timer,        \* self.state_timer
    forced_escape_timer,\* self.forced_escape_timer
    forced_angle,       \* self.forced_angle in degrees: <<>> for None, <<a>> once set
    forced_speed,       \* self.forced_speed: <<>> for None, <<s>> once set
    pattern_op,         \* the call that produced this state
    last_move,          \* the displacement function the last update ran, and
                        \* whether that update called switch_pattern
    armed_T,            \* the timer of the latest initiate_forced_escape, 0 when
                        \* no arming is being followed
    calls_since_arm,    \* update_movement calls since that arming
    \* ---- wrap machine (one Enemy, play-mode Enemy or PlayerPlay object)
    wrap_impl,          \* "Enemy" | "EnemyPlay" | "PlayerPlay"
    wrap_pre,           \* the position the wrap logic of the last call was given
    wrap_pos,           \* the object's position
    wrap_op,            \* the call that produced this state
    wrap_calls,         \* number of calls made
    \* ---- fade machine (one Enemy or play-mode Enemy object)
    fade_impl,          \* "Enemy" | "EnemyPlay"
    visible,            \* self.visible
    fading_in,          \* self.fading_in
    alpha,              \* self.alpha (Enemy), self.fade_alpha (play-mode Enemy)
    fade_start_time,    \* self.fade_start_time
    fade_now,           \* the current_time of the last show / update_fade_in call
    fade_op,            \* the call that produced this state
    fade_mono,          \* TRUE while the times passed since the last show never
                        \* decreased and were never below fade_start_time
    \* ---- game machine (one Game object)
    game,               \* the attributes of the Game object, and of the player,
                        \* enemy and TrainingMode objects it holds
    game_op,            \* the call that produced this state
    \* ---- movement machine (one Enemy or play-mode Enemy object)
    mover,              \* the enemy, its policy's action, and the outcome of
                        \* update_movement
    mover_op,           \* the call that produced this state
    \* ---- rotation-parameter machine (one EnemyTraining or PlayerTraining)
    steer,              \* the pattern tag, the timers and the circle and
                        \* diagonal parameters, and the call that produced them
    \* ---- threat-bias machine (one PlayerTraining object)
    bias,               \* the agent's position, the arguments of the last
                        \* bias_angle_away_from_enemy call and its outcome
    \* ---- session machine (one Game object and its data loggers)
    session,            \* the loop flags, the mode, the DataLogger objects
                        \* created and saved, and the event that led here
    \* ---- heading machine (the stored headings of one PlayerTraining object)
    heading             \* current_pattern, random_walk_angle, random_walk_timer,
                        \* diagonal_direction and the last pattern call

engagementVars ==
    <<shooter, clock, player_pos, enemy_pos, enemy_visible, missiles, next_id,
      missile_cooldown, missile_lifespan, missile_sequences, is_respawning,
      respawn_timer, finalize_log, respawn_calls, managed, last_op,
      last_tick>>

patternVars ==
    <<agent, current_pattern, state_timer, forced_escape_timer, forced_angle,
      forced_speed, pattern_op, last_move, armed_T, calls_since_arm>>

wrapVars == <<wrap_impl, wrap_pre, wrap_pos, wrap_op, wrap_calls>>

fadeVars ==
    <<fade_impl, visible, fading_in, alpha, fade_start_time, fade_now, fade_op,
      fade_mono>>

gameVars == <<game, game_op>>

moverVars == <<mover, mover_op>>

restVars == <<steer, bias, session, heading>>

vars ==
    <<engagementVars, patternVars, wrapVars, fadeVars, gameVars, moverVars,
      restVars>>

\* What a step of one machine leaves alone.
notEngagement == <<patternVars, wrapVars, fadeVars, gameVars, moverVars, restVars>>
notPattern == <<engagementVars, wrapVars, fadeVars, gameVars, moverVars, restVars>>
notWrap == <<engagementVars, patternVars, fadeVars, gameVars, moverVars, restVars>>
notFade == <<engagementVars, patternVars, wrapVars, gameVars, moverVars, restVars>>
notGame == <<engagementVars, patternVars, wrapVars, fadeVars, moverVars, restVars>>
notMover == <<engagementVars, patternVars, wrapVars, fadeVars, gameVars, restVars>>
notSteer ==
    <<engagementVars, patternVars, wrapVars, fadeVars, gameVars, moverVars, bias,
      session, heading>>
notBias ==
    <<engagementVars, patternVars, wrapVars, fadeVars, gameVars, moverVars, steer,
      session, heading>>
notSession ==
    <<engagementVars, patternVars, wrapVars, fadeVars, gameVars, moverVars, steer,
      bias, heading>>
notHeading ==
    <<engagementVars, patternVars, wrapVars, fadeVars, gameVars, moverVars, steer,
      bias, session>>

---------------------------------------------------------------------------
\* Bounds of the model.

\* screen_width and screen_height (the display size; set at run time)
ScreenW == 60
ScreenH == 60
\* the wall clock advances in steps of ClockStep ms up to MaxClock
ClockStep == 1000
MaxClock == 3000
\* number of Missile objects constructed in one run
MaxMissiles == 2
\* how far outside [-Size, bound] the positions handed to a wrap reach
WrapOvershoot == 6
\* the wrap calls counted on one object
MaxWrapCalls == 2
\* show is called at the times 0..MaxShowTime
MaxShowTime == 3
\* the times passed to update_fade_in: every time within FadeSlack of the
\* start and of the end of a fade, and every FadeStride-th in between
FadeSlack == 3
FadeStride == 20

\* Program constants.
Size == 50
MissileSpeed == 5
DirectLifespanMin == 500
DirectLifespanMax == 1500
AimedLifespanMin == 500
AimedLifespanMax == 3000
CooldownTicks == 120
RespawnDelay == 1000
EnemySwitchMin == 120
EnemySwitchMax == 300
PlayerSwitchMin == 180
PlayerSwitchMax == 300
ForcedEscapeMin == 1
ForcedEscapeMax == 30
JitterDegrees == 30
DesiredDistance == 200
Margin == 20
Step == 5
FadeDuration == 300
PlayFadeDuration == 300

---------------------------------------------------------------------------
\* Helpers.

Pos(px, py) == [x |-> px, y |-> py]

\* The lifespans random.randint(lo, hi) is sampled at: its two ends.
LifespanSamples(lo, hi) == {lo, hi}

\* The velocities an aimed missile of speed 5 is given: a sample of the
\* integer vectors of length 5 (right, left, and one oblique heading).
AimedVelocities ==
    {<<MissileSpeed, 0>>, <<0 - MissileSpeed, 0>>,
     <<(3 * MissileSpeed) \div 5, (4 * MissileSpeed) \div 5>>}

\* Positions PlayerTraining is constructed / reset at: random.randint(0, w - size)
\* on each axis, sampled at the two ends.
PlayerTrainingPositions ==
    {Pos(0, 0), Pos(ScreenW - Size, ScreenH - Size)}

\* Positions of the enemy after update_movement and wrap: a sample of the wrap
\* range [-size, bound]: one position that straddles the left edge of the
\* screen, and the far corner.
EnemyPositions ==
    {Pos(0 - Size + 20, 0), Pos(ScreenW, ScreenH)}

\* The record of what a missile step did with a missile: the outcome, the
\* missile as the step left it, the enemy position it was tested against and
\* whether respawner.respawn_enemy was called for it.
Tick(kind, m, e, respawn) ==
    [kind |-> kind, id |-> m.id, x |-> m.x, y |-> m.y,
     birth_time |-> m.birth_time, lifespan |-> m.lifespan,
     ex |-> e.x, ey |-> e.y, respawn |-> respawn]

NoTick ==
    [kind |-> "None", id |-> 0, x |-> 0, y |-> 0, birth_time |-> 0, lifespan |-> 0,
     ex |-> 0, ey |-> 0, respawn |-> FALSE]

---------------------------------------------------------------------------
\* Missile (entities/missile.py).

NewMissile(id, px, py, pvx, pvy, birth, life) ==
    [id |-> id, x |-> px, y |-> py, vx |-> pvx, vy |-> pvy,
     birth_time |-> birth, lifespan |-> life]

\* Missile.update: position += velocity
MissileUpdate(m) == [m EXCEPT !.x = @ + m.vx, !.y = @ + m.vy]

\* missile.get_rect().colliderect(enemy_rect): the missile's box is the
\* degenerate box at its position, the enemy's box is (pos, size, size)
MissileHitsEnemy(m, e) ==
    /\ e.x <= m.x /\ m.x < e.x + Size
    /\ e.y <= m.y /\ m.y < e.y + Size

---------------------------------------------------------------------------
\* Player.shoot_missile, PlayerPlay.shoot_missile: the missile list after the
\* call at time now with the sampled lifespan life.

ShootUnguarded(ms, id, p, now, life) ==
    Append(ms, NewMissile(id, p.x + Size \div 2, p.y + Size \div 2,
                          MissileSpeed, 0, now, life))

ShootMissile(ms, id, p, now, life) ==
    IF Len(ms) = 0
    THEN Append(ms, NewMissile(id, p.x + Size \div 2, p.y + Size \div 2,
                               MissileSpeed, 0, now, life))
    ELSE ms

\* PlayerTraining.shoot_missile(enemy_x, enemy_y): the heading is the angle to
\* the enemy plus a jitter; v is the resulting velocity.
ShootMissileAimed(ms, id, p, v, now, life) ==
    IF Len(ms) = 0
    THEN Append(ms, NewMissile(id, p.x + Size \div 2, p.y + Size \div 2,
                               v[1], v[2], now, life))
    ELSE ms

---------------------------------------------------------------------------
\* Player.update_missiles (play mode; PlayerTraining inherits it).

Expired(m, now) == now - m.birth_time >= m.lifespan

OffScreen(m) == m.x < 0 \/ m.x > ScreenW \/ m.y < 0 \/ m.y > ScreenH

\* What the loop body does with one missile: it is moved first, then removed
\* when its lifespan is over, else removed when it left the screen.
PlayOutcome(m, now) ==
    IF Expired(m, now) THEN "Expired"
    ELSE IF OffScreen(MissileUpdate(m)) THEN "OutOfBounds"
    ELSE "Active"

\* update_missiles without the lifespan test
UpdateMissilesNoExpiry(ms, now) ==
    LET moved == [i \in 1..Len(ms) |-> MissileUpdate(ms[i])]
        Keep(m) == ~OffScreen(m)
    IN  SelectSeq(moved, Keep)

UpdateMissiles(ms, now) ==
    LET moved == [i \in 1..Len(ms) |-> MissileUpdate(ms[i])]
        Keep(m) == ~Expired(m, now) /\ ~OffScreen(m)
    IN  SelectSeq(moved, Keep)

---------------------------------------------------------------------------
\* TrainingMode.update, step 2: what the loop body does with one tracked
\* missile m at time now, the enemy being at e.  life is the entry
\* missile_lifespan[m] = (birth_time, lifespan).

ResolveBoundsFirst(m, life, now, e, hasEnemy) ==
    IF now - life[1] >= life[2] THEN "Expired"
    ELSE IF OffScreen(MissileUpdate(m)) THEN "OutOfBounds"
    ELSE IF hasEnemy /\ MissileHitsEnemy(MissileUpdate(m), e) THEN "Hit"
    ELSE "Active"

ResolveNoExpiry(m, life, now, e, hasEnemy) ==
    IF hasEnemy /\ MissileHitsEnemy(MissileUpdate(m), e) THEN "Hit"
    ELSE IF OffScreen(MissileUpdate(m)) THEN "OutOfBounds"
    ELSE "Active"

Resolve(m, life, now, e, hasEnemy) ==
    IF now - life[1] >= life[2] THEN "Expired"
    ELSE IF hasEnemy /\ MissileHitsEnemy(MissileUpdate(m), e) THEN "Hit"
    ELSE IF OffScreen(MissileUpdate(m)) THEN "OutOfBounds"
    ELSE "Active"

\* The success labels finalize_missile_sequence is called with for an outcome.
FinalizeCallsHitTwice(kind) ==
    IF kind = "Expired" THEN <<FALSE>>
    ELSE IF kind = "Hit" THEN <<TRUE, FALSE>>
    ELSE IF kind = "OutOfBounds" THEN <<FALSE>>
    ELSE <<>>

FinalizeCalls(kind) ==
    IF kind = "Expired" THEN <<FALSE>>
    ELSE IF kind = "Hit" THEN <<TRUE>>
    ELSE IF kind = "OutOfBounds" THEN <<FALSE>>
    ELSE <<>>

\* Maps keyed by missile identity.
EmptyMap == [i \in {} |-> 0]
RemoveKey(f, k) == [i \in DOMAIN f \ {k} |-> f[i]]
PutKey(f, k, v) == [i \in DOMAIN f \cup {k} |-> IF i = k THEN v ELSE f[i]]

---------------------------------------------------------------------------
\* The state of each machine right after construction, with the random
\* choices of the constructor fixed: the value its variables keep in the
\* specifications of the other machines.

\* The record of the last call on a pattern agent: the displacement function
\* it ran, the forced angle and speed it used, whether switch_pattern was
\* called, the distance to the enemy it was called at, the position a forced
\* escape was armed at, and, for a pattern
\* selected inside an update, the timer it was selected with (sel) and the
\* number of updates it has driven.
NoMove ==
    [fn |-> "none", angle |-> <<>>, speed |-> <<>>, switched |-> FALSE,
     dist |-> <<>>, at |-> <<>>, sel |-> 0, driven |-> 0]

\* sel and driven after an ordinary tick that left the timer at st1
Driven(lm, switched, st1) ==
    IF switched THEN <<st1, 1>>
    ELSE IF lm.sel > 0 THEN <<lm.sel, lm.driven + 1>>
    ELSE <<0, 0>>

\* EnemyTraining.__init__, the first switch_pattern having picked
\* "random_walk" and the shortest timer
PatternIdle ==
    /\ agent = "EnemyTraining"
    /\ current_pattern = "random_walk"
    /\ state_timer = EnemySwitchMin
    /\ forced_escape_timer = 0
    /\ forced_angle = <<>>
    /\ forced_speed = <<>>
    /\ pattern_op = "init"
    /\ last_move = NoMove
    /\ armed_T = 0
    /\ calls_since_arm = 0

\* Enemy.__init__: the centre of the screen
WrapIdle ==
    /\ wrap_impl = "Enemy"
    /\ wrap_pos = Pos(ScreenW \div 2, ScreenH \div 2)
    /\ wrap_pre = wrap_pos
    /\ wrap_op = "init"
    /\ wrap_calls = 0

\* Enemy.__init__: visible, not fading, opaque
FadeIdle ==
    /\ fade_impl = "Enemy"
    /\ visible = TRUE
    /\ fading_in = FALSE
    /\ alpha = 255
    /\ fade_start_time = 0
    /\ fade_now = 0
    /\ fade_op = "init"
    /\ fade_mono = TRUE

\* The enemy slot of a Game that holds no enemy (self.enemy is None), and
\* the TrainingMode slot of a Game that never started a training session.
NoEnemy ==
    [kind |-> "None", pos |-> Pos(0, 0), visible |-> FALSE, fading_in |-> FALSE,
     alpha |-> 0, fade_start_time |-> 0, has_model |-> FALSE]

NoTrainingMode ==
    [missile_cooldown |-> 0, missile_lifespan |-> EmptyMap,
     missile_sequences |-> EmptyMap]

\* Game.__init__: the menu is shown, no mode, no entities, no respawn armed.
\* loaded tells whether _load_missile_model_once found and loaded the
\* missile model, loadable whether the enemy model file can be loaded when a
\* play session starts.
GameNew(loaded, loadable) ==
    [running |-> TRUE, fault |-> "none", menu_active |-> TRUE, mode |-> "None",
     missile_model |-> loaded, enemy_model_loadable |-> loadable, time |-> 0,
     has_player |-> FALSE, player_pos |-> Pos(0, 0),
     has_enemy |-> FALSE, enemy |-> NoEnemy,
     missiles |-> <<>>, next_id |-> 1,
     is_respawning |-> FALSE, respawn_timer |-> 0,
     has_manager |-> FALSE, manager |-> NoTrainingMode,
     events |-> <<>>]

GameIdle ==
    /\ game = GameNew(FALSE, TRUE)
    /\ game_op = "init"

\* The play-mode Enemy after __init__, with a model: the centre, in tenths of
\* a pixel.
MoverIdle ==
    /\ mover = [impl |-> "EnemyPlay", visible |-> TRUE, has_model |-> TRUE,
                pos |-> Pos(10 * (ScreenW \div 2), 10 * (ScreenH \div 2)),
                pre |-> Pos(10 * (ScreenW \div 2), 10 * (ScreenH \div 2)),
                action |-> <<0, 0>>, outcome |-> "none", moves |-> 0]
    /\ mover_op = "init"

\* self.circle_radius = 100 in both __init__
InitRadius == 100

\* EnemyTraining / PlayerTraining.__init__ up to its closing switch_pattern
\* call: no pattern yet. Angles are in hundredths of a radian; circle_calls
\* counts the circle_pattern calls since circle_angle was last drawn.
\* PlayerTraining.__init__ does not set circle_center.
SteerNew(ag) ==
    [agent |-> ag, current_pattern |-> "none", state_timer |-> 0,
     forced_escape_timer |-> 0,
     circle_center |-> IF ag = "EnemyTraining"
                       THEN <<Pos(ScreenW \div 2, ScreenH \div 2)>> ELSE <<>>,
     circle_angle |-> 0, circle_radius |-> InitRadius, circle_calls |-> 0,
     diagonal_direction |-> <<1, 1>>, op |-> "init"]

\* EnemyTraining.__init__, the first switch_pattern having picked
\* "random_walk" and the shortest timer
SteerIdle ==
    steer = [SteerNew("EnemyTraining") EXCEPT !.current_pattern = "random_walk",
                                              !.state_timer = EnemySwitchMin]

\* A PlayerTraining at p on which bias_angle_away_from_enemy was not called.
BiasNew(p) ==
    [position |-> p, enemy |-> <<>>, base_angle |-> <<>>, result |-> <<>>,
     op |-> "init"]

BiasIdle == bias = BiasNew(Pos(0, 0))

\* Game.__init__: the menu is shown, no mode, no data logger.  DataLogger
\* objects are numbered in the order of their construction; data_logger = 0
\* stands for None.
SessionNew ==
    [running |-> TRUE, menu_active |-> TRUE, mode |-> "None", fullscreen |-> FALSE,
     data_logger |-> 0, created |-> 0, saved |-> {}, exited |-> FALSE,
     op |-> "init"]

SessionIdle == session = SessionNew

\* PlayerTraining.__init__ before its switch_pattern call.  A direction is
\* held as its angle in degrees: (1, 1) is 45.
HeadingNew ==
    [current_pattern |-> "none", random_walk_angle |-> 0, random_walk_timer |-> 0,
     diagonal_direction |-> 45, moved |-> <<>>, event |-> "none", op |-> "init"]

HeadingIdle == heading = [HeadingNew EXCEPT !.current_pattern = "random_walk"]

RestIdle == SteerIdle /\ BiasIdle /\ SessionIdle /\ HeadingIdle

---------------------------------------------------------------------------
\* The engagement machine.

PlayShooters == {"Player", "PlayerPlay"}

\* Player.__init__ / Player.reset: the centre; PlayerPlay: a quarter across.
PlayStart(kind) ==
    IF kind = "Player" THEN Pos(ScreenW \div 2, ScreenH \div 2)
    ELSE Pos(ScreenW \div 4, ScreenH \div 2)

EngagementStart ==
    /\ shooter \in {"Player", "PlayerPlay", "PlayerTraining"}
    /\ clock = 0
    /\ player_pos \in (IF shooter = "PlayerTraining" THEN PlayerTrainingPositions
                       ELSE {PlayStart(shooter)})
    /\ enemy_pos \in EnemyPositions
    /\ enemy_visible = TRUE
    /\ missiles = <<>>
    /\ next_id = 1
    /\ missile_cooldown = 0
    /\ missile_lifespan = EmptyMap
    /\ missile_sequences = EmptyMap
    /\ is_respawning = FALSE
    /\ respawn_timer = 0
    /\ finalize_log = <<>>
    /\ respawn_calls = 0
    /\ managed \in (IF shooter = "PlayerTraining" THEN BOOLEAN ELSE {FALSE})
    /\ last_op = "init"
    /\ last_tick = NoTick

InitEngagement ==
    EngagementStart /\ PatternIdle /\ WrapIdle /\ FadeIdle /\ GameIdle /\ MoverIdle
    /\ RestIdle

\* Player.__init__ and an enemy, nothing fired yet
EngagementIdle ==
    /\ shooter = "Player"
    /\ clock = 0
    /\ player_pos = PlayStart("Player")
    /\ enemy_pos = Pos(ScreenW, ScreenH)
    /\ enemy_visible = TRUE
    /\ missiles = <<>>
    /\ next_id = 1
    /\ missile_cooldown = 0
    /\ missile_lifespan = EmptyMap
    /\ missile_sequences = EmptyMap
    /\ is_respawning = FALSE
    /\ respawn_timer = 0
    /\ finalize_log = <<>>
    /\ respawn_calls = 0
    /\ managed = FALSE
    /\ last_op = "init"
    /\ last_tick = NoTick

\* pygame.time.get_ticks() between two calls.
AdvanceClock ==
    /\ clock + ClockStep <= MaxClock
    /\ clock' = clock + ClockStep
    /\ last_op' = "clock"
    /\ UNCHANGED notEngagement
    /\ UNCHANGED <<shooter, player_pos, enemy_pos, enemy_visible, missiles, next_id,
                   missile_cooldown, missile_lifespan, missile_sequences,
                   is_respawning, respawn_timer, finalize_log, respawn_calls,
                   managed, last_tick>>

\* K_SPACE in play mode: player.shoot_missile()
KeyShoot ==
    /\ shooter \in PlayShooters
    /\ Len(missiles) = 0 => next_id <= MaxMissiles
    /\ \E life \in LifespanSamples(DirectLifespanMin, DirectLifespanMax) :
         missiles' = ShootMissile(missiles, next_id, player_pos, clock, life)
    /\ next_id' = IF Len(missiles') > Len(missiles) THEN next_id + 1 ELSE next_id
    /\ last_op' = "shoot"
    /\ UNCHANGED notEngagement
    /\ UNCHANGED <<shooter, clock, player_pos, enemy_pos, enemy_visible,
                   missile_cooldown, missile_lifespan, missile_sequences,
                   is_respawning, respawn_timer, finalize_log, respawn_calls,
                   managed, last_tick>>

\* player.update_missiles() in play mode
PlayUpdateMissiles ==
    /\ shooter \in PlayShooters
    /\ missiles' = UpdateMissiles(missiles, clock)
    /\ last_tick' =
         IF Len(missiles) = 0 THEN NoTick
         ELSE Tick(PlayOutcome(missiles[1], clock), MissileUpdate(missiles[1]),
                   enemy_pos, FALSE)
    /\ last_op' = "update_missiles"
    /\ UNCHANGED notEngagement
    /\ UNCHANGED <<shooter, clock, player_pos, enemy_pos, enemy_visible, next_id,
                   missile_cooldown, missile_lifespan, missile_sequences,
                   is_respawning, respawn_timer, finalize_log, respawn_calls,
                   managed>>

\* player.reset() of Player / PlayerPlay
ResetPlayer ==
    /\ shooter \in PlayShooters
    /\ player_pos' = PlayStart(shooter)
    /\ missiles' = <<>>
    /\ last_op' = "reset"
    /\ UNCHANGED notEngagement
    /\ UNCHANGED <<shooter, clock, enemy_pos, enemy_visible, next_id,
                   missile_cooldown, missile_lifespan, missile_sequences,
                   is_respawning, respawn_timer, finalize_log, respawn_calls,
                   managed, last_tick>>

---------------------------------------------------------------------------
\* TrainingMode.update

\* finalize_missile_sequence(missile, success), called once per label of
\* labels: the call is recorded; the record of the missile, if there is
\* one, is stamped, flushed and deleted.
Finalize(st, id, labels) ==
    [st EXCEPT !.log = @ \o [i \in 1..Len(labels) |-> <<id, labels[i]>>],
               !.seqs = IF Len(labels) > 0 /\ id \in DOMAIN @
                        THEN RemoveKey(@, id) ELSE @]

\* the removal without the del of the lifespan entry
UntrackKeepsLifespan(st, id) ==
    LET Other(m) == m.id # id
    IN  [st EXCEPT !.ms = SelectSeq(@, Other)]

\* player.missiles.remove(missile); del missile_lifespan[missile]
Untrack(st, id) ==
    LET Other(m) == m.id # id
    IN  [st EXCEPT !.ms = SelectSeq(@, Other), !.life = RemoveKey(@, id)]

\* The loop of step 2 over the copy of player.missiles, from index i on.
\* st holds player.missiles, the two tracking maps, the finalize calls, the
\* number of respawner.respawn_enemy calls and the record of the last
\* missile processed.  A hit ends the loop (break).
RECURSIVE TrainLoop(_, _, _, _, _)
TrainLoop(copy, i, st, now, e) ==
    IF i > Len(copy) THEN st
    ELSE
      LET m == copy[i]
      IN  IF m.id \notin DOMAIN st.life
          THEN TrainLoop(copy, i + 1,
                         [st EXCEPT !.tick = Tick("Untracked", m, e, FALSE)],
                         now, e)
          ELSE
            LET kind == Resolve(m, st.life[m.id], now, e, TRUE)
                mv == IF kind = "Expired" THEN m ELSE MissileUpdate(m)
                Moved(k) == IF st.ms[k].id = m.id THEN mv ELSE st.ms[k]
                st1 == [st EXCEPT !.ms = [k \in 1..Len(@) |-> Moved(k)],
                                  !.tick = Tick(kind, mv, e, kind = "Hit")]
                st2 == IF kind = "Active" THEN st1
                       ELSE Untrack(Finalize(st1, m.id, FinalizeCalls(kind)), m.id)
            IN  IF kind = "Hit"
                THEN [st2 EXCEPT !.hits = @ + 1]
                ELSE TrainLoop(copy, i + 1, st2, now, e)

\* Steps 2 and 3, from the state step 1 left: the agents at pp and ep, the
\* missile list ms1, the tracking maps life1 and seqs1, the cool-down cd1.
TrainingSteps23(pp, ep, ms1, life1, seqs1, cd1, nid) ==
    LET st == TrainLoop(ms1, 1,
                        [ms |-> ms1, life |-> life1, seqs |-> seqs1,
                         log |-> finalize_log, hits |-> 0, tick |-> NoTick],
                        clock, ep)
        hit == st.hits > 0
        \* respawner.respawn_enemy(current_time): hide and arm the timer
        resp1 == hit \/ is_respawning
        timer1 == IF hit THEN clock + RespawnDelay ELSE respawn_timer
        vis1 == IF hit THEN FALSE ELSE enemy_visible
        \* step 3: respawner.handle_respawn(current_time)
        fire == resp1 /\ clock >= timer1
    IN  /\ player_pos' = pp
        /\ missiles' = st.ms
        /\ missile_lifespan' = st.life
        /\ missile_sequences' = st.seqs
        /\ finalize_log' = st.log
        /\ respawn_calls' = respawn_calls + st.hits
        /\ last_tick' = st.tick
        /\ missile_cooldown' = cd1
        /\ next_id' = nid
        /\ respawn_timer' = timer1
        /\ IF fire
           THEN /\ enemy_pos' \in EnemyPositions
                /\ enemy_visible' = TRUE
                /\ is_respawning' = FALSE
           ELSE /\ enemy_pos' = ep
                /\ enemy_visible' = vis1
                /\ is_respawning' = resp1
        /\ last_op' = "training_update"
        /\ UNCHANGED notEngagement
        /\ UNCHANGED <<shooter, clock, managed>>

\* the fire test without the cool-down
CanFireNoCooldown(cd, ms) == Len(ms) = 0

\* TrainingMode.update: the guard of the shot
CanFire(cd, ms) == cd <= 0 /\ Len(ms) = 0

TrainingUpdate ==
    /\ shooter = "PlayerTraining"
    /\ managed
    /\ \E pp \in PlayerTrainingPositions, ep \in EnemyPositions :
         LET cd0 == IF missile_cooldown > 0 THEN missile_cooldown - 1
                    ELSE missile_cooldown
         IN  \/ \* random.random() >= missile_fire_prob, or the guard fails
                TrainingSteps23(pp, ep, missiles, missile_lifespan,
                                missile_sequences, cd0, next_id)
             \/ \* a missile is fired and tracked
                /\ CanFire(cd0, missiles)
                /\ next_id <= MaxMissiles
                /\ \E v \in AimedVelocities,
                      life \in LifespanSamples(AimedLifespanMin, AimedLifespanMax) :
                     LET ms1 == ShootMissileAimed(missiles, next_id, pp, v, clock, life)
                         m == ms1[1]
                     IN  TrainingSteps23(pp, ep, ms1,
                             PutKey(missile_lifespan, m.id, <<m.birth_time, m.lifespan>>),
                             PutKey(missile_sequences, m.id, <<>>),
                             CooldownTicks, next_id + 1)

\* Calls on a PlayerTraining object from outside TrainingMode.update.  On an
\* object no TrainingMode drives every call is made; on a driven one
\* shoot_missile is also requested while a missile is live (on an empty list
\* it is the call TrainingMode.update makes).
TrainingShootDirect ==
    /\ shooter = "PlayerTraining"
    /\ managed => Len(missiles) > 0
    /\ Len(missiles) = 0 => next_id <= MaxMissiles
    /\ \E v \in AimedVelocities,
          life \in LifespanSamples(AimedLifespanMin, AimedLifespanMax) :
         missiles' = ShootMissileAimed(missiles, next_id, player_pos, v, clock, life)
    /\ next_id' = IF Len(missiles') > Len(missiles) THEN next_id + 1 ELSE next_id
    /\ last_op' = "shoot"
    /\ UNCHANGED notEngagement
    /\ UNCHANGED <<shooter, managed, clock, player_pos, enemy_pos, enemy_visible,
                   missile_cooldown, missile_lifespan, missile_sequences,
                   is_respawning, respawn_timer, finalize_log, respawn_calls,
                   last_tick>>

\* PlayerTraining.update_missiles: super().update_missiles()
TrainingUpdateMissiles ==
    /\ shooter = "PlayerTraining"
    /\ ~managed
    /\ missiles' = UpdateMissiles(missiles, clock)
    /\ last_op' = "update_missiles"
    /\ UNCHANGED notEngagement
    /\ UNCHANGED <<shooter, managed, clock, player_pos, enemy_pos, enemy_visible, next_id,
                   missile_cooldown, missile_lifespan, missile_sequences,
                   is_respawning, respawn_timer, finalize_log, respawn_calls,
                   last_tick>>

\* PlayerTraining.reset
TrainingReset ==
    /\ shooter = "PlayerTraining"
    /\ ~managed
    /\ player_pos' \in PlayerTrainingPositions
    /\ missiles' = <<>>
    /\ last_op' = "reset"
    /\ UNCHANGED notEngagement
    /\ UNCHANGED <<shooter, managed, clock, enemy_pos, enemy_visible, next_id,
                   missile_cooldown, missile_lifespan, missile_sequences,
                   is_respawning, respawn_timer, finalize_log, respawn_calls,
                   last_tick>>

Next ==
    \/ AdvanceClock
    \/ KeyShoot
    \/ PlayUpdateMissiles
    \/ ResetPlayer
    \/ TrainingUpdate
    \/ TrainingShootDirect
    \/ TrainingUpdateMissiles
    \/ TrainingReset

Spec == InitEngagement /\ [][Next]_vars

---------------------------------------------------------------------------
\* Claims about the missile subsystem.

Terminal == {"Expired", "OutOfBounds", "Hit"}

LoggedIds == {finalize_log[i][1] : i \in 1..Len(finalize_log)}
ListedIds == {missiles[i].id : i \in 1..Len(missiles)}

TickOffScreen ==
    ~(0 <= last_tick.x /\ last_tick.x <= ScreenW /\ 0 <= last_tick.y /\ last_tick.y <= ScreenH)

TickOverlap ==
    /\ last_tick.ex <= last_tick.x /\ last_tick.x < last_tick.ex + Size
    /\ last_tick.ey <= last_tick.y /\ last_tick.y < last_tick.ey + Size

TickExpired == clock - last_tick.birth_time >= last_tick.lifespan

\* C1: every shooter holds at most one missile after any sequence of
\* shoot_missile, update_missiles, TrainingMode.update and reset calls, and a
\* shoot_missile call made while a missile is live leaves the list (the
\* missile's position, velocity, birth_time and lifespan) unchanged.
C1_AtMostOneMissile ==
    /\ Len(missiles) <= 1
    /\ [][/\ Len(missiles') <= 1
          /\ (last_op' = "shoot" /\ Len(missiles) > 0) => missiles' = missiles]_vars

\* A shoot_missile call was made on a PlayerTraining object whose missile
\* was already in flight.
C1_Witness ==
    /\ shooter = "PlayerTraining"
    /\ last_op = "shoot"
    /\ Len(missiles) = 1
    /\ missiles[1].birth_time < clock

\* C2 as stated: a missile that after its move is both outside the screen
\* and inside the enemy's box is resolved as OutOfBounds, its record is
\* finalized with success = false and the respawn is not invoked.
C2_BoundsBeforeHit ==
    (/\ last_op = "training_update"
     /\ last_tick.kind \in {"Active", "OutOfBounds", "Hit"}
     /\ TickOffScreen
     /\ TickOverlap)
    => (/\ last_tick.kind = "OutOfBounds"
        /\ ~last_tick.respawn
        /\ finalize_log[Len(finalize_log)] = <<last_tick.id, FALSE>>)

\* C2 amended: TrainingMode.update resolves a tracked missile by the first
\* matching rule of (a) elapsed >= lifespan -> Expired, (b) the moved
\* missile is inside the enemy's box -> Hit, (c) the moved missile is
\* outside the screen -> OutOfBounds; so a missile that is both outside the
\* screen and inside the enemy's box is a Hit, and the respawn is invoked
\* exactly for a Hit.
C2_ResolutionOrder ==
    (last_op = "training_update" /\ last_tick.kind \in Terminal \cup {"Active"})
    => (/\ last_tick.kind =
             (IF TickExpired THEN "Expired"
              ELSE IF TickOverlap THEN "Hit"
              ELSE IF TickOffScreen THEN "OutOfBounds"
              ELSE "Active")
        /\ last_tick.respawn = (last_tick.kind = "Hit"))

\* A missile was resolved while outside the screen and inside the enemy's box.
C2_Witness ==
    /\ last_op = "training_update"
    /\ last_tick.kind = "Hit"
    /\ TickOffScreen
    /\ TickOverlap
    /\ ~TickExpired

\* C3: in training mode every tracked missile leaves the list through
\* exactly one terminal outcome: finalize_missile_sequence is called exactly
\* once for it, with success = true iff the outcome is Hit, and the missile
\* leaves the list and the tracking maps in that tick.
C3_FinalizeOnce ==
    (shooter = "PlayerTraining" /\ managed)
    => (/\ \A i, j \in 1..Len(finalize_log) :
              finalize_log[i][1] = finalize_log[j][1] => i = j
        /\ LoggedIds \cap ListedIds = {}
        /\ LoggedIds \cup ListedIds = 1..(next_id - 1)
        /\ (last_op = "training_update" /\ last_tick.kind \in Terminal)
           => (/\ finalize_log[Len(finalize_log)]
                    = <<last_tick.id, last_tick.kind = "Hit">>
               /\ last_tick.id \notin ListedIds
               /\ last_tick.id \notin DOMAIN missile_lifespan
               /\ last_tick.id \notin DOMAIN missile_sequences)
        /\ (last_op = "training_update" /\ last_tick.kind = "Active")
           => (last_tick.id \in ListedIds /\ last_tick.id \notin LoggedIds))

\* A tracked missile hit the enemy and was finalized.
C3_Witness ==
    /\ shooter = "PlayerTraining"
    /\ managed
    /\ last_op = "training_update"
    /\ last_tick.kind = "Hit"
    /\ Len(finalize_log) = 2

\* C4: after a missile update step at time now (Player.update_missiles,
\* TrainingMode.update) no missile in the list has now - birth_time >=
\* lifespan; TrainingMode.update neither moves nor collision-tests the
\* missile it expires and finalizes it with success = false.
C4_Expiry ==
    /\ [](last_op \in {"update_missiles", "training_update"}
          => \A i \in 1..Len(missiles) :
                 clock - missiles[i].birth_time < missiles[i].lifespan)
    /\ [][(last_op' = "training_update" /\ Len(missiles) = 1
           /\ clock - missiles[1].birth_time >= missiles[1].lifespan)
          => (/\ missiles' = <<>>
              /\ last_tick'.kind = "Expired"
              /\ last_tick'.x = missiles[1].x
              /\ last_tick'.y = missiles[1].y
              /\ ~last_tick'.respawn
              /\ respawn_calls' = respawn_calls
              /\ finalize_log' = Append(finalize_log, <<missiles[1].id, FALSE>>))]_vars

\* TrainingMode.update expired a missile that was inside the enemy's box.
C4_Witness ==
    /\ last_op = "training_update"
    /\ last_tick.kind = "Expired"
    /\ TickOverlap

---------------------------------------------------------------------------
\* The pattern machine: the pattern rotation of EnemyTraining and
\* PlayerTraining and the forced escape of EnemyTraining.  The position and
\* the parameters of the single patterns are not tracked: an update is
\* recorded by the displacement function it ran.  Angles are in degrees.

PATTERNS(ag) ==
    IF ag = "EnemyTraining"
    THEN {"random_walk", "circle_move", "diagonal_move", "pursue"}
    ELSE {"random_walk", "circle_move", "diagonal_move"}

\* random.randint(lo, hi) of switch_pattern, sampled at its two ends
SwitchTimers(ag) ==
    IF ag = "EnemyTraining" THEN {EnemySwitchMin, EnemySwitchMax}
    ELSE {PlayerSwitchMin, PlayerSwitchMax}

SwitchChoicesAny(ag, cur) == PATTERNS(ag)

\* while new_pattern == self.current_pattern: new_pattern = random.choice(PATTERNS)
SwitchChoices(ag, cur) == PATTERNS(ag) \ {cur}

ForcedEscapeActiveLate(fe) == fe > 1

\* if self.forced_escape_timer > 0
ForcedEscapeActive(fe) == fe > 0

\* switch_pattern: the pairs <<current_pattern, state_timer>> it can leave.
\* EnemyTraining returns at once during a forced escape.
SwitchPattern(ag, cur, st, fe) ==
    IF ag = "EnemyTraining" /\ ForcedEscapeActive(fe) THEN {<<cur, st>>}
    ELSE {<<p, t>> : p \in SwitchChoices(ag, cur), t \in SwitchTimers(ag)}

OrdinaryTickLate(ag, cur, st, fe) ==
    LET t1 == st - 1
    IN  IF t1 < 0
        THEN {<<o[1], o[2], TRUE>> : o \in SwitchPattern(ag, cur, t1, fe)}
        ELSE {<<cur, t1, FALSE>>}

\* self.state_timer -= 1; if self.state_timer <= 0: self.switch_pattern()
\* The triples <<current_pattern, state_timer, switch_pattern was called>>.
OrdinaryTick(ag, cur, st, fe) ==
    LET t1 == st - 1
    IN  IF t1 <= 0
        THEN {<<o[1], o[2], TRUE>> : o \in SwitchPattern(ag, cur, t1, fe)}
        ELSE {<<cur, t1, FALSE>>}

\* self.base_speed = max(2, screen_width // 400)
BaseSpeed == IF ScreenW \div 400 > 2 THEN ScreenW \div 400 ELSE 2

Min2(a, b) == IF a <= b THEN a ELSE b

\* The same choice with the right edge tested first.
BaseAngleRightFirst(p) ==
    LET dist_left == p.x
        dist_right == (ScreenW - Size) - p.x
        dist_top == p.y
        dist_bottom == (ScreenH - Size) - p.y
        min_dist == Min2(Min2(dist_left, dist_right), Min2(dist_top, dist_bottom))
    IN  IF min_dist = dist_right THEN 180
        ELSE IF min_dist = dist_left THEN 0
        ELSE IF min_dist = dist_top THEN 90
        ELSE 270

\* The base angle of initiate_forced_escape for an enemy at p.
BaseAngle(p) ==
    LET dist_left == p.x
        dist_right == (ScreenW - Size) - p.x
        dist_top == p.y
        dist_bottom == (ScreenH - Size) - p.y
        min_dist == Min2(Min2(dist_left, dist_right), Min2(dist_top, dist_bottom))
    IN  IF min_dist = dist_left THEN 0
        ELSE IF min_dist = dist_right THEN 180
        ELSE IF min_dist = dist_top THEN 90
        ELSE 270

\* The positions a forced escape is armed at: on each edge of the window
\* the enemy fits in, its centre (all four distances equal), and two of its
\* corners (two distances equal).
ArmPositions ==
    LET mx == (ScreenW - Size) \div 2
        my == (ScreenH - Size) \div 2
    IN  {Pos(0, my), Pos(ScreenW - Size, my), Pos(mx, 0), Pos(mx, ScreenH - Size),
         Pos(mx, my), Pos(ScreenW - Size, 0), Pos(ScreenW - Size, ScreenH - Size)}

\* random.uniform(-angle_variation, angle_variation), at its two ends
JitterSamples == {0 - JitterDegrees, JitterDegrees}

\* random.randint(1, 30): the two shortest timers and the longest
ForcedEscapeSamples == {ForcedEscapeMin, ForcedEscapeMin + 1, ForcedEscapeMax}

CooldownTimerSingle(T) == T

\* self.state_timer = self.forced_escape_timer * 2
CooldownTimer(T) == 2 * T

\* The distances to the enemy PlayerTraining.update is called at: around
\* close_threshold and far_threshold.
DistSamples ==
    {DesiredDistance - Margin - 1, DesiredDistance - Margin,
     DesiredDistance + Margin, DesiredDistance + Margin + 1}

ZoneFnInclusive(cur, d) ==
    IF d <= DesiredDistance - Margin THEN "random_walk"
    ELSE IF d >= DesiredDistance + Margin
         THEN (IF cur \in {"circle_move", "diagonal_move"} THEN cur
               ELSE "random_walk")
         ELSE cur

\* The pattern function PlayerTraining.update runs at distance d.
ZoneFn(cur, d) ==
    IF d < DesiredDistance - Margin THEN "random_walk"
    ELSE IF d > DesiredDistance + Margin
         THEN (IF cur \in {"circle_move", "diagonal_move"} THEN cur
               ELSE "random_walk")
         ELSE cur

\* An arming is followed until the first switch update_movement makes.
Following == armed_T > 0 /\ ~(pattern_op = "update_movement" /\ last_move.switched)

\* __init__ of either class: current_pattern = None, then switch_pattern()
PatternStart ==
    /\ agent \in {"EnemyTraining", "PlayerTraining"}
    /\ \E o \in SwitchPattern(agent, "None", 0, 0) :
         /\ current_pattern = o[1]
         /\ state_timer = o[2]
    /\ forced_escape_timer = 0
    /\ forced_angle = <<>>
    /\ forced_speed = <<>>
    /\ pattern_op = "init"
    /\ last_move = NoMove
    /\ armed_T = 0
    /\ calls_since_arm = 0

InitPattern ==
    PatternStart /\ EngagementIdle /\ WrapIdle /\ FadeIdle /\ GameIdle /\ MoverIdle
    /\ RestIdle

\* EnemyTraining.update_movement
UpdateMovement ==
    /\ agent = "EnemyTraining"
    /\ IF ForcedEscapeActive(forced_escape_timer)
       THEN /\ forced_escape_timer' = forced_escape_timer - 1
            /\ last_move' = [fn |-> "forced_escape", angle |-> forced_angle,
                             speed |-> forced_speed, switched |-> FALSE,
                             dist |-> <<>>, at |-> <<>>, sel |-> 0, driven |-> 0]
            /\ UNCHANGED <<current_pattern, state_timer>>
       ELSE /\ \E r \in OrdinaryTick(agent, current_pattern, state_timer,
                                     forced_escape_timer) :
                 /\ current_pattern' = r[1]
                 /\ state_timer' = r[2]
                 /\ last_move' = [fn |-> r[1], angle |-> <<>>, speed |-> <<>>,
                                  switched |-> r[3], dist |-> <<>>, at |-> <<>>,
                                  sel |-> Driven(last_move, r[3], r[2])[1],
                                  driven |-> Driven(last_move, r[3], r[2])[2]]
            /\ UNCHANGED forced_escape_timer
    /\ armed_T' = IF Following THEN armed_T ELSE 0
    /\ calls_since_arm' = IF Following THEN calls_since_arm + 1 ELSE 0
    /\ pattern_op' = "update_movement"
    /\ UNCHANGED <<agent, forced_angle, forced_speed>>
    /\ UNCHANGED notPattern

\* EnemyTraining.initiate_forced_escape
InitiateForcedEscape ==
    /\ agent = "EnemyTraining"
    /\ \E p \in ArmPositions, j \in JitterSamples, T \in ForcedEscapeSamples :
         /\ forced_angle' = <<BaseAngle(p) + j>>
         /\ forced_escape_timer' = T
         /\ state_timer' = CooldownTimer(T)
         /\ armed_T' = T
         /\ last_move' = [NoMove EXCEPT !.at = <<p>>]
    /\ forced_speed' = <<BaseSpeed>>
    /\ calls_since_arm' = 0
    /\ pattern_op' = "initiate_forced_escape"
    /\ UNCHANGED <<agent, current_pattern>>
    /\ UNCHANGED notPattern

\* PlayerTraining.update
PlayerUpdate ==
    /\ agent = "PlayerTraining"
    /\ \E d \in DistSamples,
          r \in OrdinaryTick(agent, current_pattern, state_timer, 0) :
         /\ current_pattern' = r[1]
         /\ state_timer' = r[2]
         /\ last_move' = [fn |-> ZoneFn(r[1], d), angle |-> <<>>, speed |-> <<>>,
                          switched |-> r[3], dist |-> <<d>>, at |-> <<>>,
                          sel |-> Driven(last_move, r[3], r[2])[1],
                          driven |-> Driven(last_move, r[3], r[2])[2]]
    /\ pattern_op' = "update"
    /\ UNCHANGED <<agent, forced_escape_timer, forced_angle, forced_speed,
                   armed_T, calls_since_arm>>
    /\ UNCHANGED notPattern

\* PlayerTraining.reset: ... self.switch_pattern()
PlayerReset ==
    /\ agent = "PlayerTraining"
    /\ \E o \in SwitchPattern(agent, current_pattern, state_timer, 0) :
         /\ current_pattern' = o[1]
         /\ state_timer' = o[2]
    /\ last_move' = [NoMove EXCEPT !.switched = TRUE]
    /\ pattern_op' = "reset"
    /\ UNCHANGED <<agent, forced_escape_timer, forced_angle, forced_speed,
                   armed_T, calls_since_arm>>
    /\ UNCHANGED notPattern

\* switch_pattern() called on either agent from outside its update
SwitchPatternCall ==
    /\ \E o \in SwitchPattern(agent, current_pattern, state_timer,
                              forced_escape_timer) :
         /\ current_pattern' = o[1]
         /\ state_timer' = o[2]
    /\ last_move' = [NoMove EXCEPT !.switched = TRUE]
    /\ pattern_op' = "switch_pattern"
    /\ LET kept == Following /\ ForcedEscapeActive(forced_escape_timer)
       IN  /\ armed_T' = IF kept THEN armed_T ELSE 0
           /\ calls_since_arm' = IF kept THEN calls_since_arm ELSE 0
    /\ UNCHANGED <<agent, forced_escape_timer, forced_angle, forced_speed>>
    /\ UNCHANGED notPattern

\* The agents as the game loop drives them, and the forced escape.
NextPattern ==
    \/ UpdateMovement
    \/ InitiateForcedEscape
    \/ PlayerUpdate
    \/ PlayerReset

SpecPattern == InitPattern /\ [][NextPattern]_vars

\* The same, with switch_pattern also called from outside.
NextSwitch ==
    \/ UpdateMovement
    \/ InitiateForcedEscape
    \/ PlayerUpdate
    \/ PlayerReset
    \/ SwitchPatternCall

SpecSwitch == InitPattern /\ [][NextSwitch]_vars

---------------------------------------------------------------------------
\* Claims about the pattern rotation and the forced escape.

\* C5 as stated: every call of switch_pattern, on either agent, leaves
\* current_pattern different from its value before the call, and in PATTERNS.
C5_SwitchAlwaysChanges ==
    [][last_move'.switched
       => (/\ current_pattern' # current_pattern
           /\ current_pattern' \in PATTERNS(agent))]_vars

\* C5 amended: every call of switch_pattern made while no forced escape is
\* active (forced_escape_timer = 0; always so for PlayerTraining) leaves
\* current_pattern different from its value before the call, and in PATTERNS
\* of the agent; a call made during a forced escape leaves current_pattern
\* and state_timer as they were.
C5_NoRepeat ==
    [][last_move'.switched
       => IF forced_escape_timer = 0
          THEN /\ current_pattern' # current_pattern
               /\ current_pattern' \in PATTERNS(agent)
          ELSE /\ current_pattern' = current_pattern
               /\ state_timer' = state_timer]_vars

\* switch_pattern was called on an EnemyTraining whose forced escape had
\* run out.
C5_Witness ==
    /\ agent = "EnemyTraining"
    /\ pattern_op = "switch_pattern"
    /\ last_move.switched
    /\ forced_angle # <<>>
    /\ forced_escape_timer = 0

\* C6: after initiate_forced_escape armed a timer T, each of the next T
\* calls of update_movement applies the forced displacement (forced_angle,
\* forced_speed) only: no pattern function runs, switch_pattern is not
\* called, current_pattern and state_timer are unchanged; call T + 1 is an
\* ordinary tick.
C6_ForcedEscapeOverride ==
    [][(pattern_op' = "update_movement" /\ Following)
       => LET n == calls_since_arm + 1
          IN  /\ armed_T \in ForcedEscapeMin..ForcedEscapeMax
              /\ n <= armed_T
                   => /\ last_move'.fn = "forced_escape"
                      /\ last_move'.angle = forced_angle
                      /\ last_move'.speed = forced_speed
                      /\ ~last_move'.switched
                      /\ current_pattern' = current_pattern
                      /\ state_timer' = state_timer
              /\ n = armed_T + 1
                   => /\ last_move'.fn = current_pattern'
                      /\ last_move'.fn \in PATTERNS(agent)
                      /\ state_timer' = state_timer - 1]_vars

\* Call T + 1 after an arming with the longest timer: an ordinary tick.
C6_Witness ==
    /\ pattern_op = "update_movement"
    /\ armed_T = ForcedEscapeMax
    /\ calls_since_arm = armed_T + 1
    /\ last_move.fn = current_pattern

\* C7: arming a forced escape with timer T sets state_timer to 2 * T
\* whatever it was; state_timer is still 2 * T when the escape has run out,
\* and, with no new arming, update_movement calls switch_pattern on the
\* (2 * T)-th ordinary tick after that and on none before.
C7_Cooldown ==
    /\ []((Following /\ calls_since_arm <= armed_T) => state_timer = 2 * armed_T)
    /\ [][/\ pattern_op' = "initiate_forced_escape"
               => state_timer' = 2 * forced_escape_timer'
          /\ (pattern_op' = "update_movement" /\ Following
              /\ calls_since_arm + 1 > armed_T)
               => (last_move'.switched
                     <=> calls_since_arm + 1 - armed_T = 2 * armed_T)]_vars

\* The switch that ends the cool-down of the longest forced escape.
C7_Witness ==
    /\ pattern_op = "update_movement"
    /\ last_move.switched
    /\ armed_T = ForcedEscapeMax
    /\ calls_since_arm = 3 * ForcedEscapeMax

---------------------------------------------------------------------------
\* The wrap machine: Enemy._wrap_position, wrap_position of the play-mode
\* Enemy, and the wrap at the end of PlayerPlay.handle_input.

WrapEnemyHighOnly(p) ==
    [x |-> IF p.x > ScreenW THEN 0 - Size ELSE p.x,
     y |-> IF p.y > ScreenH THEN 0 - Size ELSE p.y]

WrapEnemyInclusive(p) ==
    [x |-> IF p.x < 0 - Size THEN ScreenW
           ELSE IF p.x >= ScreenW THEN 0 - Size ELSE p.x,
     y |-> IF p.y < 0 - Size THEN ScreenH
           ELSE IF p.y >= ScreenH THEN 0 - Size ELSE p.y]

\* Enemy._wrap_position on self.pos = p
WrapPositionEnemy(p) ==
    [x |-> IF p.x < 0 - Size THEN ScreenW
           ELSE IF p.x > ScreenW THEN 0 - Size ELSE p.x,
     y |-> IF p.y < 0 - Size THEN ScreenH
           ELSE IF p.y > ScreenH THEN 0 - Size ELSE p.y]

\* wrap_position(x, y) of the play-mode Enemy
WrapPositionEnemyPlay(px, py) ==
    LET x1 == IF px < 0 - Size THEN ScreenW
              ELSE IF px > ScreenW THEN 0 - Size ELSE px
        y1 == IF py < 0 - Size THEN ScreenH
              ELSE IF py > ScreenH THEN 0 - Size ELSE py
    IN  Pos(x1, y1)

Keys == {"left", "right", "up", "down"}

\* PlayerPlay.handle_input, first half: the position after the keys
KeyDisplacement(p, keys) ==
    LET x1 == IF "left" \in keys THEN p.x - Step ELSE p.x
        x2 == IF "right" \in keys THEN x1 + Step ELSE x1
        y1 == IF "up" \in keys THEN p.y - Step ELSE p.y
        y2 == IF "down" \in keys THEN y1 + Step ELSE y1
    IN  Pos(x2, y2)

\* PlayerPlay.handle_input, second half: the wrap-around
WrapPlayerPlay(p) ==
    LET x1 == IF p.x < 0 - Size THEN ScreenW
              ELSE IF p.x > ScreenW THEN 0 - Size ELSE p.x
        y1 == IF p.y < 0 - Size THEN ScreenH
              ELSE IF p.y > ScreenH THEN 0 - Size ELSE p.y
    IN  Pos(x1, y1)

\* The coordinates an enemy is wrapped from: around -Size, 0 and bound.
WrapCoords(bound) ==
    {c \in (0 - Size - WrapOvershoot)..(bound + WrapOvershoot) :
        \/ c <= 1 - Size
        \/ c = 0
        \/ c >= bound - 1}

\* An enemy is at any sampled position (set_position, or a displacement of
\* its update); PlayerPlay starts a quarter across the screen.
WrapStart ==
    /\ wrap_impl \in {"Enemy", "EnemyPlay", "PlayerPlay"}
    /\ wrap_pos \in (IF wrap_impl = "PlayerPlay" THEN {PlayStart("PlayerPlay")}
                     ELSE {Pos(cx, cy) : cx \in WrapCoords(ScreenW),
                                         cy \in WrapCoords(ScreenH)})
    /\ wrap_pre = wrap_pos
    /\ wrap_op = "init"
    /\ wrap_calls = 0

InitWrap ==
    WrapStart /\ EngagementIdle /\ PatternIdle /\ FadeIdle /\ GameIdle /\ MoverIdle
    /\ RestIdle

CountWrap == IF wrap_calls < MaxWrapCalls THEN wrap_calls + 1 ELSE wrap_calls

\* enemy._wrap_position()
WrapEnemy ==
    /\ wrap_impl = "Enemy"
    /\ wrap_pre' = wrap_pos
    /\ wrap_pos' = WrapPositionEnemy(wrap_pos)
    /\ wrap_op' = "wrap"
    /\ wrap_calls' = CountWrap
    /\ UNCHANGED wrap_impl
    /\ UNCHANGED notWrap

\* self.pos["x"], self.pos["y"] = self.wrap_position(self.pos["x"], self.pos["y"])
WrapEnemyPlay ==
    /\ wrap_impl = "EnemyPlay"
    /\ wrap_pre' = wrap_pos
    /\ wrap_pos' = WrapPositionEnemyPlay(wrap_pos.x, wrap_pos.y)
    /\ wrap_op' = "wrap"
    /\ wrap_calls' = CountWrap
    /\ UNCHANGED wrap_impl
    /\ UNCHANGED notWrap

\* player.handle_input() with the keys of keys held down
HandleInput ==
    /\ wrap_impl = "PlayerPlay"
    /\ \E keys \in SUBSET Keys :
         /\ wrap_pre' = KeyDisplacement(wrap_pos, keys)
         /\ wrap_pos' = WrapPlayerPlay(wrap_pre')
    /\ wrap_op' = "handle_input"
    /\ wrap_calls' = CountWrap
    /\ UNCHANGED wrap_impl
    /\ UNCHANGED notWrap

NextWrap ==
    \/ WrapEnemy
    \/ WrapEnemyPlay
    \/ HandleInput

SpecWrap == InitWrap /\ [][NextWrap]_vars

---------------------------------------------------------------------------
\* Claims about the screen wrap.

InRange(c, bound) == 0 - Size <= c /\ c <= bound

\* C8: after a wrap by any of the three implementations each coordinate is
\* in [-Size, bound] of its axis; a coordinate that was in range is left as
\* it was whatever the wrap does to the other axis; wrapping a wrapped
\* position changes nothing.
C8_WrapInvariant ==
    /\ [](wrap_calls >= 1
          => /\ InRange(wrap_pos.x, ScreenW)
             /\ InRange(wrap_pos.y, ScreenH)
             /\ InRange(wrap_pre.x, ScreenW) => wrap_pos.x = wrap_pre.x
             /\ InRange(wrap_pre.y, ScreenH) => wrap_pos.y = wrap_pre.y)
    /\ [][(wrap_calls >= 1 /\ wrap_pre' = wrap_pos) => wrap_pos' = wrap_pos]_vars

\* PlayerPlay walked off the right edge: x wrapped to -Size, y untouched.
C8_Witness ==
    /\ wrap_impl = "PlayerPlay"
    /\ wrap_op = "handle_input"
    /\ wrap_pre.x > ScreenW
    /\ InRange(wrap_pre.y, ScreenH)
    /\ wrap_pos = Pos(0 - Size, wrap_pre.y)

\* C9 as stated: Enemy._wrap_position and wrap_position of the play-mode
\* Enemy map a coordinate exactly equal to the bound to -Size.
C9_BoundMapsToMinusSize ==
    (wrap_impl \in {"Enemy", "EnemyPlay"} /\ wrap_calls >= 1)
      => /\ wrap_pre.x = ScreenW => wrap_pos.x = 0 - Size
         /\ wrap_pre.y = ScreenH => wrap_pos.y = 0 - Size

\* C9 amended: a coordinate exactly equal to the bound is left at the bound
\* (it is mapped neither to -Size nor to 0); the coordinates mapped to
\* -Size are those strictly greater than the bound.
C9_BoundStays ==
    (wrap_impl \in {"Enemy", "EnemyPlay"} /\ wrap_calls >= 1)
      => /\ wrap_pre.x = ScreenW => wrap_pos.x = ScreenW
         /\ wrap_pre.y = ScreenH => wrap_pos.y = ScreenH
         /\ wrap_pre.x > ScreenW <=> (wrap_pos.x = 0 - Size /\ wrap_pre.x # 0 - Size)
         /\ wrap_pre.y > ScreenH <=> (wrap_pos.y = 0 - Size /\ wrap_pre.y # 0 - Size)

\* An Enemy with x exactly at screen_width was wrapped and stayed there.
C9_Witness ==
    /\ wrap_impl = "Enemy"
    /\ wrap_op = "wrap"
    /\ wrap_pre.x = ScreenW
    /\ wrap_pos.x = ScreenW

---------------------------------------------------------------------------
\* The fade machine: hide, show, start_fade_in and update_fade_in of Enemy
\* and of the play-mode Enemy.

\* int(a / b) for b > 0: Python's int() truncates toward zero
TruncDiv(a, b) == IF a >= 0 THEN a \div b ELSE 0 - ((0 - a) \div b)

FadeStepStrict(fading, a, start, now, fade_duration) ==
    IF ~fading THEN <<fading, a>>
    ELSE LET elapsed == now - start
         IN  IF elapsed > fade_duration THEN <<FALSE, 255>>
             ELSE <<TRUE, TruncDiv(elapsed * 255, fade_duration)>>

\* Enemy.update_fade_in(current_time, fade_duration): <<fading_in, alpha>>
FadeStep(fading, a, start, now, fade_duration) ==
    IF ~fading THEN <<fading, a>>
    ELSE LET elapsed == now - start
         IN  IF elapsed >= fade_duration THEN <<FALSE, 255>>
             ELSE <<TRUE, TruncDiv(elapsed * 255, fade_duration)>>

\* update_fade_in(current_time) of the play-mode Enemy: <<fading_in, fade_alpha>>
FadeStepPlay(fading, a, start, now) ==
    IF ~fading THEN <<fading, a>>
    ELSE LET elapsed == now - start
         IN  IF elapsed >= PlayFadeDuration THEN <<FALSE, 255>>
             ELSE <<TRUE, TruncDiv(elapsed * 255, PlayFadeDuration)>>

ShowTimes == 0..MaxShowTime

FadeTimes ==
    {t \in 0..(FadeDuration + MaxShowTime + FadeSlack) :
        \/ t <= MaxShowTime + FadeSlack
        \/ t >= FadeDuration - FadeSlack
        \/ t % FadeStride = 0}

\* The classes whose fade-in is Enemy's: EnemyTraining inherits
\* start_fade_in and update_fade_in and overrides hide and show.
EnemyFade == {"Enemy", "EnemyTraining"}

\* __init__: Enemy and EnemyTraining start opaque, the play-mode Enemy with
\* fade_alpha = 0
FadeStart ==
    /\ fade_impl \in {"Enemy", "EnemyPlay", "EnemyTraining"}
    /\ visible = TRUE
    /\ fading_in = FALSE
    /\ alpha = (IF fade_impl \in EnemyFade THEN 255 ELSE 0)
    /\ fade_start_time = 0
    /\ fade_now = 0
    /\ fade_op = "init"
    /\ fade_mono = TRUE

InitFade ==
    FadeStart /\ EngagementIdle /\ PatternIdle /\ WrapIdle /\ GameIdle /\ MoverIdle
    /\ RestIdle

\* hide()
Hide ==
    /\ visible' = FALSE
    /\ fade_op' = "hide"
    /\ UNCHANGED <<fade_impl, fading_in, alpha, fade_start_time, fade_now, fade_mono>>
    /\ UNCHANGED notFade

ShowKeepsAlpha ==
    /\ fade_impl \in {"Enemy", "EnemyPlay"}
    /\ \E t \in ShowTimes :
         /\ fade_start_time' = t
         /\ fade_now' = t
    /\ visible' = TRUE
    /\ fading_in' = TRUE
    /\ fade_op' = "show"
    /\ fade_mono' = TRUE
    /\ UNCHANGED <<fade_impl, alpha>>
    /\ UNCHANGED notFade

\* show(current_time) of Enemy and of the play-mode Enemy
Show ==
    /\ fade_impl \in {"Enemy", "EnemyPlay"}
    /\ \E t \in ShowTimes :
         /\ fade_start_time' = t
         /\ fade_now' = t
    /\ visible' = TRUE
    /\ fading_in' = TRUE
    /\ alpha' = 0
    /\ fade_op' = "show"
    /\ fade_mono' = TRUE
    /\ UNCHANGED fade_impl
    /\ UNCHANGED notFade

\* EnemyTraining.show(current_time): visible again, no fade
ShowTraining ==
    /\ fade_impl = "EnemyTraining"
    /\ \E t \in ShowTimes : fade_now' = t
    /\ visible' = TRUE
    /\ fade_op' = "show"
    /\ fade_mono' = (fade_mono /\ fade_now' >= fade_now)
    /\ UNCHANGED <<fade_impl, fading_in, alpha, fade_start_time>>
    /\ UNCHANGED notFade

\* Enemy.start_fade_in(current_time)
StartFadeIn ==
    /\ fade_impl \in EnemyFade
    /\ \E t \in ShowTimes :
         /\ fade_start_time' = t
         /\ fade_now' = t
    /\ fading_in' = TRUE
    /\ alpha' = 0
    /\ fade_op' = "start_fade_in"
    /\ fade_mono' = TRUE
    /\ UNCHANGED <<fade_impl, visible>>
    /\ UNCHANGED notFade

\* update_fade_in(current_time)
UpdateFadeIn ==
    /\ \E t \in FadeTimes :
         LET r == IF fade_impl \in EnemyFade
                  THEN FadeStep(fading_in, alpha, fade_start_time, t, FadeDuration)
                  ELSE FadeStepPlay(fading_in, alpha, fade_start_time, t)
         IN  /\ fading_in' = r[1]
             /\ alpha' = r[2]
             /\ fade_now' = t
             /\ fade_mono' = (fade_mono /\ t >= fade_now)
    /\ fade_op' = "update_fade_in"
    /\ UNCHANGED <<fade_impl, visible, fade_start_time>>
    /\ UNCHANGED notFade

NextFade ==
    \/ Hide
    \/ Show
    \/ ShowTraining
    \/ StartFadeIn
    \/ UpdateFadeIn

SpecFade == InitFade /\ [][NextFade]_vars

---------------------------------------------------------------------------
\* Claims about the fade-in.

\* C10: after show(s), over update_fade_in calls whose times never decrease
\* and are never below s, alpha never decreases; the first call with
\* now - s >= 300 sets alpha to 255 and clears fading_in; every call with
\* now - s < 300 leaves alpha below 255 and fading_in set; once fading_in is
\* cleared update_fade_in changes nothing.
C10_FadeMonotone ==
    /\ []((fade_mono /\ fading_in)
          => (fade_now - fade_start_time < FadeDuration /\ alpha < 255))
    /\ [][fade_op' = "update_fade_in"
          => /\ fade_mono' => alpha' >= alpha
             /\ (fade_mono' /\ fading_in /\ fade_now' - fade_start_time >= FadeDuration)
                  => (alpha' = 255 /\ ~fading_in')
             /\ (fade_mono' /\ fading_in /\ fade_now' - fade_start_time < FadeDuration)
                  => (alpha' < 255 /\ fading_in')
             /\ ~fading_in
                  => (/\ alpha' = alpha
                      /\ ~fading_in'
                      /\ visible' = visible
                      /\ fade_start_time' = fade_start_time)]_vars

\* A fade that began at a time s > 0 was completed by the call at s + 300.
C10_Witness ==
    /\ fade_op = "update_fade_in"
    /\ fade_mono
    /\ fade_start_time > 0
    /\ fade_now - fade_start_time = FadeDuration
    /\ alpha = 255
    /\ ~fading_in

\* C11: update_fade_in clamps: alpha is in 0..255 after every call, for
\* every integer time, also a time earlier than fade_start_time.
C11_AlphaClamped == 0 <= alpha /\ alpha <= 255

\* C12 as stated: show(now) of every enemy class, EnemyTraining included,
\* leaves visible = true, fading_in = true, alpha = 0, fade_start_time = now.
C12_ShowStartsFade ==
    [][fade_op' = "show"
       => (/\ visible'
           /\ fading_in'
           /\ alpha' = 0
           /\ fade_start_time' = fade_now')]_vars

\* C12 amended: show(now) of Enemy and of the play-mode Enemy leaves
\* visible = true, fading_in = true, alpha = 0 and fade_start_time = now;
\* show(now) of EnemyTraining sets visible = true and leaves fading_in,
\* alpha and fade_start_time as they were (no fade-in).
C12_ShowByClass ==
    [][fade_op' = "show"
       => IF fade_impl = "EnemyTraining"
          THEN /\ visible'
               /\ fading_in' = fading_in
               /\ alpha' = alpha
               /\ fade_start_time' = fade_start_time
          ELSE /\ visible'
               /\ fading_in'
               /\ alpha' = 0
               /\ fade_start_time' = fade_now']_vars

\* An EnemyTraining was shown at a time after 0: opaque at once, no fade.
C12_Witness ==
    /\ fade_impl = "EnemyTraining"
    /\ fade_op = "show"
    /\ fade_now > 0
    /\ visible
    /\ ~fading_in
    /\ alpha = 255
    /\ fade_start_time = 0

---------------------------------------------------------------------------
\* The movement machine: update_movement of the model-driven enemies
\* (entities/enemy.py, entities/enemy_play.py).  Positions are kept in
\* tenths of a pixel: the speed player_speed * 0.7 is 3.5 pixels for the
\* player's step of 5.

InTenths(n) == 10 * n

\* The actions the movement policy is sampled at: the zero vector, two axis
\* vectors and two oblique vectors of integer length.
ActionSamples == {<<0, 0>>, <<1, 0>>, <<0, 0 - 1>>, <<3, 4>>, <<0 - 4, 3>>}

\* math.hypot(action_dx, action_dy), exact on the sampled actions
ActionLength(a) == CHOOSE n \in 0..5 : n * n = a[1] * a[1] + a[2] * a[2]

\* The normalisation without its guard: the division by a zero length raises
\* ZeroDivisionError.
DisplacementUnguarded(a, player_speed) ==
    LET length == ActionLength(a)
    IN  IF length = 0 THEN [raised |-> TRUE, dx |-> 0, dy |-> 0]
        ELSE [raised |-> FALSE,
              dx |-> TruncDiv(a[1] * player_speed * 7, length),
              dy |-> TruncDiv(a[2] * player_speed * 7, length)]

\* The displacement, in tenths, update_movement adds to the position for the
\* policy's action a: the action is normalised when its length is positive
\* and replaced by (0.0, 0.0) otherwise, then scaled by player_speed * 0.7.
Displacement(a, player_speed) ==
    LET length == ActionLength(a)
    IN  IF length > 0
        THEN [raised |-> FALSE,
              dx |-> TruncDiv(a[1] * player_speed * 7, length),
              dy |-> TruncDiv(a[2] * player_speed * 7, length)]
        ELSE [raised |-> FALSE, dx |-> 0, dy |-> 0]

\* Enemy._wrap_position and wrap_position of the play-mode Enemy, on a
\* position in tenths
WrapTenths(p) ==
    [x |-> IF p.x < 0 - InTenths(Size) THEN InTenths(ScreenW)
           ELSE IF p.x > InTenths(ScreenW) THEN 0 - InTenths(Size) ELSE p.x,
     y |-> IF p.y < 0 - InTenths(Size) THEN InTenths(ScreenH)
           ELSE IF p.y > InTenths(ScreenH) THEN 0 - InTenths(Size) ELSE p.y]

\* Enemy.update_movement(player_x, player_y, player_speed, current_time) on
\* an enemy at pos whose policy answers a: the new position and how the call
\* ended.
UpdateMovementEnemy(vis, has_model, pos, a, player_speed) ==
    IF ~vis THEN [pos |-> pos, outcome |-> "hidden"]
    ELSE IF ~has_model THEN [pos |-> pos, outcome |-> "idle"]
    ELSE LET d == Displacement(a, player_speed)
         IN  IF d.raised THEN [pos |-> pos, outcome |-> "raised"]
             ELSE [pos |-> WrapTenths(Pos(pos.x + d.dx, pos.y + d.dy)),
                   outcome |-> "moved"]

\* update_movement of the play-mode Enemy: there is no test of the model, a
\* call of self.model = None raises TypeError.
UpdateMovementEnemyPlay(vis, has_model, pos, a, player_speed) ==
    IF ~vis THEN [pos |-> pos, outcome |-> "hidden"]
    ELSE IF ~has_model THEN [pos |-> pos, outcome |-> "raised"]
    ELSE LET d == Displacement(a, player_speed)
         IN  IF d.raised THEN [pos |-> pos, outcome |-> "raised"]
             ELSE [pos |-> WrapTenths(Pos(pos.x + d.dx, pos.y + d.dy)),
                   outcome |-> "moved"]

MaxMoves == 3

\* Positions the enemy is constructed or placed at: the centre, the far
\* corner of the wrap range, and a position beyond the range (set_position
\* and the spawner do not wrap).
MoverPositions ==
    {Pos(InTenths(ScreenW \div 2), InTenths(ScreenH \div 2)),
     Pos(InTenths(ScreenW), InTenths(ScreenH)),
     Pos(InTenths(ScreenW) + 10, 0 - InTenths(Size))}

MoverStart ==
    /\ \E impl \in {"Enemy", "EnemyPlay"}, hm \in BOOLEAN, p \in MoverPositions :
         mover = [impl |-> impl, visible |-> TRUE, has_model |-> hm,
                  pos |-> p, pre |-> p, action |-> <<0, 0>>, outcome |-> "none",
                  moves |-> 0]
    /\ mover_op = "init"

InitMover ==
    MoverStart /\ EngagementIdle /\ PatternIdle /\ WrapIdle /\ FadeIdle /\ GameIdle
    /\ RestIdle

MoverUpdateMovement ==
    /\ mover.moves < MaxMoves
    /\ \E a \in ActionSamples :
         LET r == IF mover.impl = "Enemy"
                  THEN UpdateMovementEnemy(mover.visible, mover.has_model,
                                           mover.pos, a, Step)
                  ELSE UpdateMovementEnemyPlay(mover.visible, mover.has_model,
                                               mover.pos, a, Step)
         IN  mover' = [mover EXCEPT !.pre = mover.pos, !.pos = r.pos,
                                    !.action = a, !.outcome = r.outcome,
                                    !.moves = @ + 1]
    /\ mover_op' = "update_movement"
    /\ UNCHANGED notMover

\* hide()
MoverHide ==
    /\ mover.visible
    /\ mover' = [mover EXCEPT !.visible = FALSE]
    /\ mover_op' = "hide"
    /\ UNCHANGED notMover

\* show(current_time)
MoverShow ==
    /\ ~mover.visible
    /\ mover' = [mover EXCEPT !.visible = TRUE]
    /\ mover_op' = "show"
    /\ UNCHANGED notMover

NextMover ==
    \/ MoverUpdateMovement
    \/ MoverHide
    \/ MoverShow

SpecMover == InitMover /\ [][NextMover]_vars

InWrapRange(p) ==
    /\ 0 - InTenths(Size) <= p.x /\ p.x <= InTenths(ScreenW)
    /\ 0 - InTenths(Size) <= p.y /\ p.y <= InTenths(ScreenH)

\* C20: when the movement policy returns (0, 0) for a visible enemy that has
\* a policy, update_movement raises no error and applies no displacement: an
\* enemy whose position is inside the wrap range keeps exactly its position.
C20_ZeroAction ==
    (/\ mover_op = "update_movement"
     /\ mover.visible
     /\ mover.has_model
     /\ mover.action = <<0, 0>>)
    => (/\ mover.outcome = "moved"
        /\ InWrapRange(mover.pre) => mover.pos = mover.pre)

\* The policy of a visible enemy inside the wrap range, which had moved
\* before, answered (0, 0).
C20_Witness ==
    /\ mover_op = "update_movement"
    /\ mover.visible
    /\ mover.has_model
    /\ mover.action = <<0, 0>>
    /\ mover.moves > 1
    /\ InWrapRange(mover.pre)
    /\ mover.pos = mover.pre
    /\ mover.pos \notin MoverPositions

---------------------------------------------------------------------------
\* The game machine: Game (gameplay/game.py) with the player, the enemy and
\* the TrainingMode object it holds.  The enemy's position is kept in tenths
\* of a pixel, everything else in pixels and milliseconds.  game.events is
\* the sequence of steps the last tick performed, in the order it performed
\* them.


\* pygame.Rect(enemy.pos["x"], enemy.pos["y"], size, size): the coordinates
\* are truncated to integers
EnemyRect(e) == Pos(TruncDiv(e.pos.x, 10), TruncDiv(e.pos.y, 10))

\* Game.check_collision: both exist and their boxes overlap
CheckCollision(g) ==
    /\ g.has_player
    /\ g.has_enemy
    /\ LET r == EnemyRect(g.enemy)
       IN  /\ g.player_pos.x < r.x + Size
           /\ r.x < g.player_pos.x + Size
           /\ g.player_pos.y < r.y + Size
           /\ r.y < g.player_pos.y + Size

Log(g, what) == [g EXCEPT !.events = Append(@, what)]

\* play_update, lines 303-306: player.handle_input() with the keys held down
InputPhase(g, keys) ==
    IF g.has_player
    THEN Log([g EXCEPT !.player_pos = WrapPlayerPlay(KeyDisplacement(@, keys))],
             "player_move")
    ELSE g

\* play_update, lines 308-321: enemy.update_movement, the policy answering
\* a; an exception stops the loop and ends play_update.  Without a player
\* the arguments of the call already raise.
EnemyMovePhase(g, a) ==
    IF ~g.has_enemy THEN g
    ELSE IF ~g.has_player
    THEN Log([g EXCEPT !.running = FALSE], "enemy_move_raised")
    ELSE LET r == UpdateMovementEnemyPlay(g.enemy.visible, g.enemy.has_model,
                                          g.enemy.pos, a, Step)
         IN  IF r.outcome = "raised"
             THEN Log([g EXCEPT !.running = FALSE], "enemy_move_raised")
             ELSE Log([g EXCEPT !.enemy.pos = r.pos], "enemy_move")

\* play_update, lines 323-329: a body overlap hides the enemy and arms the
\* respawn timer
BodyCollisionPhase(g, t) ==
    IF CheckCollision(g)
    THEN Log(Log([g EXCEPT !.enemy.visible = FALSE,
                           !.is_respawning = TRUE,
                           !.respawn_timer = t + RespawnDelay],
                 "hide"), "arm")
    ELSE g

\* The guidance applied whether or not a missile model is loaded.
GuidancePhaseAlways(g, v) ==
    IF g.has_player /\ Len(g.missiles) > 0
    THEN Log([g EXCEPT !.missiles[Len(g.missiles)].vx = v[1],
                       !.missiles[Len(g.missiles)].vy = v[2]],
             "guide")
    ELSE g

\* play_update, lines 331-357: with a missile model, the last missile of the
\* list is given the velocity v = 5 * (cos, sin)(heading + delta)
GuidancePhase(g, v) ==
    IF g.missile_model /\ g.has_player /\ Len(g.missiles) > 0
    THEN Log([g EXCEPT !.missiles[Len(g.missiles)].vx = v[1],
                       !.missiles[Len(g.missiles)].vy = v[2]],
             "guide")
    ELSE g

\* play_update as a whole; the two returns skip what follows them
PlayUpdate(g, t, keys, a, v) ==
    LET g1 == InputPhase(g, keys)
        g2 == EnemyMovePhase(g1, a)
    IN  IF ~g2.running THEN g2
        ELSE GuidancePhase(BodyCollisionPhase(g2, t), v)

\* check_missile_collisions: handle_missile_collisions(player, enemy,
\* respawn_callback).  The first missile inside the box of a visible enemy
\* is removed, the enemy is hidden and the callback arms the timer at the
\* time now it reads from the clock (the millisecond of the tick).
MissileCollisionPhase(g, now) ==
    IF ~(g.has_enemy /\ g.has_player) \/ Len(g.missiles) = 0 THEN g
    ELSE LET Hits(m) == g.enemy.visible /\ MissileHitsEnemy(m, EnemyRect(g.enemy))
             Misses(m) == ~Hits(m)
             g1 == Log(g, "missile_check")
         IN  IF \E i \in 1..Len(g.missiles) : Hits(g.missiles[i])
             THEN Log(Log([g1 EXCEPT !.missiles = SelectSeq(@, Misses),
                                     !.enemy.visible = FALSE,
                                     !.is_respawning = TRUE,
                                     !.respawn_timer = now + RespawnDelay],
                          "hide"), "arm")
             ELSE g1

\* respawn_enemy_with_fade_in(game, current_time): the enemy is placed at rp,
\* shown with a fade-in, and the timer is cleared
RespawnEnemyWithFadeIn(g, t, rp) ==
    Log([g EXCEPT !.enemy.pos = rp,
                  !.enemy.visible = TRUE,
                  !.enemy.fading_in = TRUE,
                  !.enemy.alpha = 0,
                  !.enemy.fade_start_time = t,
                  !.is_respawning = FALSE],
        "respawn")

\* The respawn fired as soon as it is armed.
HandleRespawnEarly(g, t, rp) ==
    IF g.is_respawning /\ g.has_enemy /\ g.has_player
    THEN RespawnEnemyWithFadeIn(g, t, rp)
    ELSE g

\* Game.handle_respawn(current_time)
HandleRespawn(g, t, rp) ==
    IF g.is_respawning /\ t >= g.respawn_timer /\ g.has_enemy /\ g.has_player
    THEN RespawnEnemyWithFadeIn(g, t, rp)
    ELSE g

\* Game.update, lines 291-292: enemy.update_fade_in(current_time)
FadePhase(g, t) ==
    IF g.has_enemy /\ g.enemy.fading_in
    THEN LET f == FadeStepPlay(g.enemy.fading_in, g.enemy.alpha,
                               g.enemy.fade_start_time, t)
         IN  Log([g EXCEPT !.enemy.fading_in = f[1], !.enemy.alpha = f[2]], "fade")
    ELSE g

\* Game.update, lines 293-294: player.update_missiles()
MissilePhase(g, now) ==
    IF g.has_player /\ Len(g.missiles) > 0
    THEN Log([g EXCEPT !.missiles = UpdateMissiles(@, now)], "missile_move")
    ELSE g

\* Game.update(current_time) in play mode
UpdatePlay(g, t, keys, a, v, rp) ==
    LET g1 == PlayUpdate([g EXCEPT !.events = <<>>, !.time = t], t, keys, a, v)
        g2 == MissileCollisionPhase(g1, t)
        g3 == HandleRespawn(g2, t, rp)
        g4 == FadePhase(g3, t)
    IN  MissilePhase(g4, t)

\* TrainingMode.update() at time t.  pp and ep are the positions the pattern
\* movements leave the player and the enemy at; with fire, random.random()
\* is below missile_fire_prob, and the missile gets velocity v and lifespan
\* life.  Step 2 reads player.missiles whether or not there is a player:
\* without one the call raises.
UpdateTrain(g, t, pp, ep, fire, v, life) ==
    LET both == g.has_enemy /\ g.has_player
        mg == g.manager
        g0 == [g EXCEPT !.events = <<>>, !.time = t]
        g1 == IF both
              THEN Log(Log([g0 EXCEPT !.player_pos = pp,
                                      !.enemy.pos = Pos(InTenths(ep.x), InTenths(ep.y))],
                           "player_move"), "enemy_move")
              ELSE g0
        cd0 == IF both /\ mg.missile_cooldown > 0 THEN mg.missile_cooldown - 1
               ELSE mg.missile_cooldown
        shoots == both /\ fire /\ cd0 <= 0 /\ Len(g.missiles) = 0
        ms1 == IF shoots
               THEN ShootMissileAimed(g.missiles, g.next_id, pp, v, t, life)
               ELSE g.missiles
        life1 == IF shoots
                 THEN PutKey(mg.missile_lifespan, ms1[1].id,
                             <<ms1[1].birth_time, ms1[1].lifespan>>)
                 ELSE mg.missile_lifespan
        seqs1 == IF shoots THEN PutKey(mg.missile_sequences, ms1[1].id, <<>>)
                 ELSE mg.missile_sequences
        st == TrainLoop(ms1, 1,
                        [ms |-> ms1, life |-> life1, seqs |-> seqs1,
                         log |-> <<>>, hits |-> 0, tick |-> NoTick],
                        t, EnemyRect(g1.enemy))
        hit == st.hits > 0
        g2 == [g1 EXCEPT !.missiles = st.ms,
                         !.next_id = IF shoots THEN @ + 1 ELSE @,
                         !.manager = [missile_cooldown |->
                                          IF shoots THEN CooldownTicks ELSE cd0,
                                      missile_lifespan |-> st.life,
                                      missile_sequences |-> st.seqs]]
        g3 == IF Len(ms1) > 0 THEN Log(g2, "missile_move") ELSE g2
        \* respawner.respawn_enemy(current_time)
        g4 == IF hit
              THEN Log(Log([g3 EXCEPT !.enemy.visible = FALSE,
                                      !.is_respawning = TRUE,
                                      !.respawn_timer = t + RespawnDelay],
                           "hide"), "arm")
              ELSE g3
    IN  IF ~g.has_player THEN [g0 EXCEPT !.fault = "raised"]
        \* respawner.handle_respawn(current_time)
        ELSE IF g4.is_respawning /\ t >= g4.respawn_timer /\ g4.has_enemy
        THEN Log([g4 EXCEPT !.enemy.visible = TRUE, !.is_respawning = FALSE],
                 "respawn")
        ELSE g4

\* The keys held down in a tick, the answers of the movement policy and the
\* velocities the guidance gives a missile.
GameKeys == {{}, {"left"}, {"right"}}

GameActions == {<<0, 0>>, <<1, 0>>}

GuidanceVelocities == {<<MissileSpeed, 0>>, <<0 - MissileSpeed, 0>>}

\* Where spawn_entities and respawn_enemy_with_fade_in place the enemy: next
\* to the play-mode player's start, overlapping it by one pixel, and clear
\* of it.
SpawnPositions ==
    {Pos(InTenths(ScreenW \div 4 - Size + 1), InTenths(ScreenH \div 2)),
     Pos(InTenths(ScreenW \div 4 - Size - Step), InTenths(ScreenH \div 2))}

\* The time between two passes of the loop.
TickSteps == {ClockStep}

GameStart ==
    /\ \E loaded \in BOOLEAN, loadable \in BOOLEAN : game = GameNew(loaded, loadable)
    /\ game_op = "init"

InitGame ==
    GameStart /\ EngagementIdle /\ PatternIdle /\ WrapIdle /\ FadeIdle /\ MoverIdle
    /\ RestIdle

Looping == game.running /\ game.fault = "none"

\* check_menu_selection("train"): start_game("train")
StartTrain ==
    /\ Looping
    /\ game.menu_active
    /\ \E pp \in PlayerTrainingPositions, ep \in EnemyPositions :
         game' = [game EXCEPT !.menu_active = FALSE,
                              !.mode = "train",
                              !.has_player = TRUE,
                              !.player_pos = pp,
                              !.missiles = <<>>,
                              !.has_enemy = TRUE,
                              !.enemy = [kind |-> "EnemyTraining",
                                         pos |-> Pos(InTenths(ep.x), InTenths(ep.y)),
                                         visible |-> TRUE, fading_in |-> FALSE,
                                         alpha |-> 255, fade_start_time |-> 0,
                                         has_model |-> FALSE],
                              !.has_manager = TRUE,
                              !.manager = NoTrainingMode,
                              !.events = <<>>]
    /\ game_op' = "start_train"
    /\ UNCHANGED notGame

\* check_menu_selection("play"): start_game("play"); _init_play_mode raises
\* when the enemy model cannot be loaded
StartPlay ==
    /\ Looping
    /\ game.menu_active
    /\ IF ~game.enemy_model_loadable
       THEN game' = [game EXCEPT !.menu_active = FALSE, !.mode = "play",
                                 !.fault = "raised", !.events = <<>>]
       ELSE \E sp \in SpawnPositions :
              game' = [game EXCEPT !.menu_active = FALSE,
                                   !.mode = "play",
                                   !.has_player = TRUE,
                                   !.player_pos = PlayStart("PlayerPlay"),
                                   !.missiles = <<>>,
                                   !.has_enemy = TRUE,
                                   !.enemy = [kind |-> "EnemyPlay", pos |-> sp,
                                              visible |-> TRUE, fading_in |-> FALSE,
                                              alpha |-> 0, fade_start_time |-> 0,
                                              has_model |-> TRUE],
                                   !.events = <<>>]
    /\ game_op' = "start_play"
    /\ UNCHANGED notGame

\* Game.reset_game_state
ResetGameState(g) ==
    [g EXCEPT !.has_player = FALSE, !.player_pos = Pos(0, 0), !.missiles = <<>>,
              !.has_enemy = FALSE, !.enemy = NoEnemy,
              !.is_respawning = FALSE, !.respawn_timer = 0]

\* K_m in a session: menu_active = True; reset_game_state()
ReturnToMenu ==
    /\ Looping
    /\ ~game.menu_active
    /\ game' = [ResetGameState(game) EXCEPT !.menu_active = TRUE, !.events = <<>>]
    /\ game_op' = "return_to_menu"
    /\ UNCHANGED notGame

\* K_SPACE in a play session: player.shoot_missile()
GameKeyShoot ==
    /\ Looping
    /\ ~game.menu_active
    /\ game.mode = "play"
    /\ game.has_player
    /\ Len(game.missiles) = 0 => game.next_id <= MaxMissiles
    /\ \E life \in LifespanSamples(DirectLifespanMin, DirectLifespanMax) :
         LET ms == ShootMissile(game.missiles, game.next_id, game.player_pos,
                                game.time, life)
         IN  game' = [game EXCEPT !.missiles = ms,
                                  !.next_id = IF Len(ms) > Len(game.missiles)
                                              THEN @ + 1 ELSE @]
    /\ game_op' = "shoot"
    /\ UNCHANGED notGame

\* QUIT, K_ESCAPE in a session, or "exit" in the menu
GameQuit ==
    /\ Looping
    /\ game' = [game EXCEPT !.running = FALSE]
    /\ game_op' = "quit"
    /\ UNCHANGED notGame

\* One pass of the loop of Game.run in a play session: update(current_time)
TickPlay ==
    /\ Looping
    /\ ~game.menu_active
    /\ game.mode = "play"
    /\ \E dt \in TickSteps, keys \in GameKeys, a \in GameActions,
          v \in GuidanceVelocities, rp \in SpawnPositions :
         /\ game.time + dt <= MaxClock
         /\ game' = UpdatePlay(game, game.time + dt, keys, a, v, rp)
    /\ game_op' = "tick"
    /\ UNCHANGED notGame

\* One pass of the loop in a training session: training_mode_manager.update()
TickTrain ==
    /\ Looping
    /\ ~game.menu_active
    /\ game.mode = "train"
    /\ \E dt \in TickSteps, pp \in PlayerTrainingPositions, ep \in EnemyPositions,
          fire \in BOOLEAN, v \in AimedVelocities,
          life \in LifespanSamples(AimedLifespanMin, AimedLifespanMax) :
         /\ game.time + dt <= MaxClock
         /\ (fire /\ Len(game.missiles) = 0) => game.next_id <= MaxMissiles
         /\ game' = UpdateTrain(game, game.time + dt, pp, ep, fire, v, life)
    /\ game_op' = "tick"
    /\ UNCHANGED notGame

NextGame ==
    \/ StartTrain
    \/ StartPlay
    \/ ReturnToMenu
    \/ GameKeyShoot
    \/ GameQuit
    \/ TickPlay
    \/ TickTrain

SpecGame == InitGame /\ [][NextGame]_vars

---------------------------------------------------------------------------
\* Claims about the respawn/fade lifecycle, the tick and the teardown.

EventsOf(g) == {g.events[i] : i \in 1..Len(g.events)}

PlayTick == game_op' = "tick" /\ game'.mode = "play"

\* C13: in a play tick at time t, a body overlap of the player and the enemy
\* hides the enemy, sets is_respawning and sets respawn_timer = t + 1000;
\* the respawn routine runs only in a tick that started with is_respawning
\* set, whose time is at least respawn_timer, with a player and an enemy.
C13_RespawnArming ==
    [][PlayTick =>
         /\ (CheckCollision(game') /\ "respawn" \notin EventsOf(game'))
            => (/\ ~game'.enemy.visible
                /\ game'.is_respawning
                /\ game'.respawn_timer = game'.time + RespawnDelay)
         /\ "respawn" \in EventsOf(game')
            => (/\ game.is_respawning
                /\ game'.time >= game.respawn_timer
                /\ game.has_player
                /\ game.has_enemy)]_vars

\* A body overlap armed the timer, the player moved off the hidden enemy,
\* and the tick at the armed time ran the respawn.
C13_Witness ==
    /\ game_op = "tick"
    /\ game.mode = "play"
    /\ "respawn" \in EventsOf(game)
    /\ "arm" \notin EventsOf(game)
    /\ game.time >= ClockStep + RespawnDelay
    /\ game.enemy.visible
    /\ game.enemy.fading_in
    /\ ~game.is_respawning

Hidden(g) == g.has_enemy /\ ~g.enemy.visible

FadingInBelow255(g) ==
    g.has_enemy /\ g.enemy.visible /\ g.enemy.fading_in /\ g.enemy.alpha < 255

\* C14: bounded hidden time.  In a play tick that starts with the enemy
\* Hidden and the respawn timer armed, hide() is not triggered again and the
\* timer is not armed again, and when the tick's time has reached
\* respawn_timer the enemy is shown again in that tick, wherever the player
\* stands.
C14_BoundedHidden ==
    [][(PlayTick /\ Hidden(game) /\ game.is_respawning) =>
         /\ "hide" \notin EventsOf(game')
         /\ "arm" \notin EventsOf(game')
         /\ game'.respawn_timer = game.respawn_timer
         /\ game'.time >= game.respawn_timer
            => ("respawn" \in EventsOf(game') /\ game'.enemy.visible)]_vars

\* C15: body-collision gating.  In a play tick that starts with the enemy
\* Hidden, or FadingIn with alpha < 255, an overlap of the two boxes is not
\* a body collision: the body check of that tick neither calls hide() nor
\* arms the respawn timer.
C15_BodyGating ==
    [][(PlayTick /\ (Hidden(game) \/ FadingInBelow255(game))) =>
         (\A i \in 1..Len(game'.events) :
            game'.events[i] \in {"hide", "arm"}
            => \E j \in 1..(i - 1) : game'.events[j] = "missile_check")]_vars

MovementSteps == {"player_move", "enemy_move", "enemy_move_raised"}
MissileSteps == {"guide", "missile_check", "missile_move"}
LifecycleSteps == {"hide", "arm", "respawn", "fade"}

\* C16: tick ordering.  In the sequence of steps of one tick, in play mode
\* and in training mode, no missile step precedes a movement step and no
\* lifecycle step (hide, arming, respawn, fade advance) precedes a movement
\* step or a missile step.
C16_TickOrder ==
    game_op = "tick" =>
      \A i, j \in 1..Len(game.events) :
        i < j =>
          /\ ~(game.events[i] \in MissileSteps /\ game.events[j] \in MovementSteps)
          /\ ~(/\ game.events[i] \in LifecycleSteps
               /\ game.events[j] \in MovementSteps \cup MissileSteps)

\* C17: teardown.  After returning to the menu no agent, no missile, no armed
\* respawn timer and no missile tracking entry of the ended session is
\* reachable from the game.
C17_Teardown ==
    game_op = "return_to_menu" =>
      /\ ~game.has_player
      /\ ~game.has_enemy
      /\ game.missiles = <<>>
      /\ ~game.is_respawning
      /\ game.respawn_timer = 0
      /\ game.manager.missile_lifespan = EmptyMap
      /\ game.manager.missile_sequences = EmptyMap

\* C18: a missing policy is not fatal.  Without a missile model the game
\* runs with missile_model = None; when the enemy model cannot be loaded, a
\* play session still starts, with a player and an enemy, and the loop
\* keeps running.
C18_PolicyNonFatal ==
    (game.mode = "play" /\ game_op = "start_play") =>
      /\ game.fault = "none"
      /\ game.running
      /\ game.has_player
      /\ game.has_enemy

IdsOf(g) == {g.missiles[i].id : i \in 1..Len(g.missiles)}

MissileOf(g, id) == g.missiles[CHOOSE i \in 1..Len(g.missiles) : g.missiles[i].id = id]

\* C19: without a missile model no step of the game changes the velocity of
\* a live missile: a missile that is in the list before and after a step
\* has the same vx and vy.
C19_StraightFlight ==
    [][~game.missile_model =>
         \A id \in IdsOf(game) \cap IdsOf(game') :
           /\ MissileOf(game', id).vx = MissileOf(game, id).vx
           /\ MissileOf(game', id).vy = MissileOf(game, id).vy]_vars

\* A play tick without a missile model has moved a missile fired in an
\* earlier tick by its initial velocity.
C19_Witness ==
    /\ game_op = "tick"
    /\ game.mode = "play"
    /\ ~game.missile_model
    /\ "missile_move" \in EventsOf(game)
    /\ Len(game.missiles) = 1
    /\ game.missiles[1].birth_time < game.time
    /\ game.missiles[1].vx = MissileSpeed
    /\ game.missiles[1].vy = 0
    /\ game.missiles[1].x = game.player_pos.x + Size \div 2 + MissileSpeed

---------------------------------------------------------------------------
\* Further claims about the pattern rotation.

\* C21: in PlayerTraining.update exactly one displacement function runs,
\* chosen from the distance d to the enemy and the stored tag: random_walk
\* when d < desired_distance - margin whatever the tag, the stored tag's
\* function otherwise (d = 180 and d = 220 included); the choice does not
\* change current_pattern.
C21_ZonePolicy ==
    [][pattern_op' = "update" =>
         LET d == last_move'.dist[1]
         IN  /\ last_move'.fn \in PATTERNS("PlayerTraining")
             /\ d < DesiredDistance - Margin => last_move'.fn = "random_walk"
             /\ d >= DesiredDistance - Margin => last_move'.fn = current_pattern'
             /\ ~last_move'.switched => current_pattern' = current_pattern]_vars

\* PlayerTraining.update ran random_walk for an agent whose tag is
\* circle_move, one pixel inside the close threshold.
C21_Witness ==
    /\ pattern_op = "update"
    /\ last_move.dist = <<DesiredDistance - Margin - 1>>
    /\ current_pattern = "circle_move"
    /\ last_move.fn = "random_walk"
    /\ ~last_move.switched

\* A tick without active forced escape: PlayerTraining.update, or
\* EnemyTraining.update_movement called with forced_escape_timer = 0.
OrdinaryStep ==
    \/ pattern_op' = "update"
    \/ pattern_op' = "update_movement" /\ forced_escape_timer = 0

\* What every ordinary tick does with the timer and the tag.
TimerRule ==
    /\ last_move'.switched <=> state_timer - 1 <= 0
    /\ ~last_move'.switched
         => (state_timer' = state_timer - 1 /\ current_pattern' = current_pattern)
    /\ last_move'.switched => current_pattern' # current_pattern
    /\ last_move'.sel > 0 => state_timer' = last_move'.sel - last_move'.driven + 1
    /\ (last_move'.switched /\ last_move.sel > 0) => last_move.driven = last_move.sel

\* C27 as stated: in a tick without active forced escape, of either agent,
\* state_timer is decremented by exactly 1, current_pattern changes iff the
\* decremented timer is <= 0, and the one displacement function that runs
\* is that of the tag current after the possible switch; a pattern selected
\* with timer T drives exactly T consecutive ordinary ticks.
C27_TagFunctionRuns ==
    [][OrdinaryStep => (TimerRule /\ last_move'.fn = current_pattern')]_vars

\* C27 amended: in a tick without active forced escape state_timer is
\* decremented by exactly 1 and current_pattern changes iff the decremented
\* timer is <= 0; EnemyTraining then runs the function of the tag current
\* after the possible switch, PlayerTraining runs that function unless the
\* enemy is closer than desired_distance - margin, where it runs
\* random_walk; a tag selected by a switch inside a tick with timer T stays
\* current for exactly T consecutive ordinary ticks, the selecting one
\* included, as long as no forced escape is armed and switch_pattern is not
\* called from outside the tick.
C27_OrdinaryTick ==
    [][OrdinaryStep =>
         /\ TimerRule
         /\ last_move'.fn =
              IF agent = "PlayerTraining"
                 /\ last_move'.dist[1] < DesiredDistance - Margin
              THEN "random_walk"
              ELSE current_pattern']_vars

\* The last of the 120 ticks of a tag EnemyTraining selected inside a tick
\* with the shortest timer.
C27_Witness ==
    /\ agent = "EnemyTraining"
    /\ pattern_op = "update_movement"
    /\ last_move.sel = EnemySwitchMin
    /\ last_move.driven = last_move.sel
    /\ state_timer = 1
    /\ last_move.fn = current_pattern
    /\ ~last_move.switched

Abs(n) == IF n >= 0 THEN n ELSE 0 - n

\* C29: initiate_forced_escape picks the base angle from the smallest of the
\* four edge distances (left = x, right = (width - size) - x, top = y,
\* bottom = (height - size) - y): left -> 0, right -> 180, top -> 90,
\* bottom -> 270 degrees, ties going to the first of left, right, top,
\* bottom; the final angle is within 30 degrees of the base, the timer is in
\* 1..30 and forced_speed is base_speed.
C29_Arming ==
    pattern_op = "initiate_forced_escape" =>
      LET p == last_move.at[1]
          l == p.x
          r == (ScreenW - Size) - p.x
          t == p.y
          b == (ScreenH - Size) - p.y
          base == IF l <= r /\ l <= t /\ l <= b THEN 0
                  ELSE IF r <= t /\ r <= b THEN 180
                  ELSE IF t <= b THEN 90
                  ELSE 270
      IN  /\ Abs(forced_angle[1] - base) <= JitterDegrees
          /\ forced_escape_timer \in ForcedEscapeMin..ForcedEscapeMax
          /\ forced_speed = <<BaseSpeed>>

\* An escape armed in the centre of the window, where the four distances
\* are equal, heads left of which the base angle is 0.
C29_Witness ==
    /\ pattern_op = "initiate_forced_escape"
    /\ last_move.at = <<Pos((ScreenW - Size) \div 2, (ScreenH - Size) \div 2)>>
    /\ forced_angle = <<JitterDegrees>>
    /\ forced_escape_timer = ForcedEscapeMax

---------------------------------------------------------------------------
\* The rotation-parameter machine: switch_pattern, circle_pattern and the
\* forced escape of one EnemyTraining or PlayerTraining object, with the
\* circle and diagonal parameters they keep. The agent's position is an
\* input of the calls that read it.

\* max(20, min(200, self.circle_radius))
RadiusMin == 20
RadiusMax == 200

\* self.circle_radius = random.randint(50, 150)
SwitchRadiusMin == 50
SwitchRadiusMax == 150

\* angle_increment = 0.02, in hundredths of a radian
AngleIncrement == 2

\* circle_pattern calls followed after one drawing of circle_angle
EnemyCircleCalls == 11
PlayerCircleCalls == 16

MaxCircleCalls(ag) ==
    IF ag = "EnemyTraining" THEN EnemyCircleCalls ELSE PlayerCircleCalls

Max2(a, b) == IF a >= b THEN a ELSE b

\* The positions switch_pattern is called at
SteerPositions == {Pos(0, 0), Pos(ScreenW - Size, ScreenH - Size)}

\* random.uniform(0, 2 * math.pi), at its two ends
AngleSamples == {0, 628}

\* random.randint(50, 150), at its two ends
RadiusSamples == {SwitchRadiusMin, SwitchRadiusMax}

\* (random.choice([-1, 1]), random.choice([-1, 1])): two of the four
DirectionSamples == {<<-1, 1>>, <<1, -1>>}

\* The circle_center switch_pattern sets for an agent at p: the position
\* itself for EnemyTraining, clamped into [size, width - size] for
\* PlayerTraining.
CircleCenter(ag, p) ==
    IF ag = "EnemyTraining" THEN p
    ELSE Pos(Max2(Size, Min2(ScreenW - Size, p.x)),
             Max2(Size, Min2(ScreenH - Size, p.y)))

\* switch_pattern without the forced-escape test
SwitchPatternRecordsUnguarded(s, p) ==
    LET tagged ==
          {[s EXCEPT !.current_pattern = n, !.state_timer = t,
                     !.op = "switch_pattern"] :
              n \in SwitchChoices(s.agent, s.current_pattern),
              t \in SwitchTimers(s.agent)}
        params(r) ==
          IF r.current_pattern = "circle_move"
          THEN {[r EXCEPT !.circle_center = <<CircleCenter(s.agent, p)>>,
                          !.circle_angle = a, !.circle_radius = rad,
                          !.circle_calls = 0] :
                   a \in AngleSamples, rad \in RadiusSamples}
          ELSE IF r.current_pattern = "diagonal_move"
          THEN {[r EXCEPT !.diagonal_direction = d] : d \in DirectionSamples}
          ELSE {r}
    IN  UNION {params(r) : r \in tagged}

\* switch_pattern of an agent at p: the objects it can leave. EnemyTraining
\* returns at once while forced_escape_timer > 0.
SwitchPatternRecords(s, p) ==
    IF s.agent = "EnemyTraining" /\ ForcedEscapeActive(s.forced_escape_timer)
    THEN {[s EXCEPT !.op = "switch_pattern"]}
    ELSE SwitchPatternRecordsUnguarded(s, p)

\* random.randint(-5, 5) for EnemyTraining and random.randint(-2, 2) for
\* PlayerTraining, at their two ends; 0 also stands for the 99% of the calls
\* that do not perturb.
Perturbations(ag) ==
    IF ag = "EnemyTraining" THEN {-5, 0, 5} ELSE {-2, 0, 2}

ClampRadiusLow(r) == Min2(RadiusMax, r)

\* max(20, min(200, self.circle_radius))
ClampRadius(r) == Max2(RadiusMin, Min2(RadiusMax, r))

\* circle_pattern: the angle advances, the radius is perturbed and clamped.
CirclePattern(s, d) ==
    [s EXCEPT !.circle_angle = @ + AngleIncrement,
              !.circle_radius = ClampRadius(@ + d),
              !.circle_calls = @ + 1,
              !.op = "circle_pattern"]

\* __init__ of either agent, closing with switch_pattern
SteerStart ==
    \E ag \in {"EnemyTraining", "PlayerTraining"} :
      \E p \in SteerPositions :
        \E r \in SwitchPatternRecords(SteerNew(ag), p) :
          steer = [r EXCEPT !.op = "init"]

InitSteer ==
    /\ SteerStart
    /\ EngagementIdle /\ PatternIdle /\ WrapIdle /\ FadeIdle /\ GameIdle
    /\ MoverIdle /\ BiasIdle /\ SessionIdle /\ HeadingIdle

\* switch_pattern, called from a tick or from outside
SteerSwitchPattern ==
    /\ \E p \in SteerPositions : steer' \in SwitchPatternRecords(steer, p)
    /\ UNCHANGED notSteer

\* circle_pattern, as the ordinary tick calls it
SteerCirclePattern ==
    /\ steer.current_pattern = "circle_move"
    /\ ~ForcedEscapeActive(steer.forced_escape_timer)
    /\ steer.circle_calls < MaxCircleCalls(steer.agent)
    /\ \E d \in Perturbations(steer.agent) : steer' = CirclePattern(steer, d)
    /\ UNCHANGED notSteer

\* EnemyTraining.initiate_forced_escape, with the two shortest timers
SteerInitiateForcedEscape ==
    /\ steer.agent = "EnemyTraining"
    /\ \E T \in {ForcedEscapeMin, ForcedEscapeMin + 1} :
         steer' = [steer EXCEPT !.forced_escape_timer = T,
                                !.state_timer = CooldownTimer(T),
                                !.op = "initiate_forced_escape"]
    /\ UNCHANGED notSteer

\* EnemyTraining.update_movement during a forced escape
SteerEscapeTick ==
    /\ steer.agent = "EnemyTraining"
    /\ ForcedEscapeActive(steer.forced_escape_timer)
    /\ steer' = [steer EXCEPT !.forced_escape_timer = @ - 1,
                              !.op = "update_movement"]
    /\ UNCHANGED notSteer

NextSteer ==
    \/ SteerSwitchPattern
    \/ SteerCirclePattern
    \/ SteerInitiateForcedEscape
    \/ SteerEscapeTick

SpecSteer == InitSteer /\ [][NextSteer]_vars

\* C28: a call of EnemyTraining.switch_pattern made while
\* forced_escape_timer > 0 changes nothing: current_pattern, state_timer and
\* the circle and diagonal parameters are as before.
C28_EscapePreempts ==
    [][(/\ steer'.op = "switch_pattern"
        /\ steer.agent = "EnemyTraining"
        /\ steer.forced_escape_timer > 0)
       => /\ [steer' EXCEPT !.op = steer.op] = steer
          /\ steer'.current_pattern = steer.current_pattern
          /\ steer'.state_timer = steer.state_timer
          /\ steer'.circle_center = steer.circle_center
          /\ steer'.circle_angle = steer.circle_angle
          /\ steer'.circle_radius = steer.circle_radius
          /\ steer'.diagonal_direction = steer.diagonal_direction]_vars

\* switch_pattern has returned during a forced escape armed with the longer
\* of the two timers.
C28_Witness ==
    /\ steer.op = "switch_pattern"
    /\ steer.agent = "EnemyTraining"
    /\ steer.forced_escape_timer = ForcedEscapeMin + 1
    /\ steer.state_timer = CooldownTimer(ForcedEscapeMin + 1)

\* C30: for both agents circle_radius stays within [20, 200] whatever
\* switch_pattern and circle_pattern calls are made; a switch into
\* circle_move resets it into [50, 150]; one circle_pattern call changes it
\* by at most 5.
C30_RadiusBound ==
    /\ steer.circle_radius \in RadiusMin..RadiusMax
    /\ [][/\ steer'.circle_radius \in RadiusMin..RadiusMax
          /\ (/\ steer'.op = "switch_pattern"
              /\ steer'.current_pattern = "circle_move"
              /\ steer.current_pattern # "circle_move")
             => steer'.circle_radius \in SwitchRadiusMin..SwitchRadiusMax
          /\ steer'.op = "circle_pattern"
             => Abs(steer'.circle_radius - steer.circle_radius) <= 5]_vars

\* The radius of an EnemyTraining has been perturbed down to the lower bound.
C30_Witness ==
    /\ steer.op = "circle_pattern"
    /\ steer.agent = "EnemyTraining"
    /\ steer.circle_radius = RadiusMin
    /\ steer.circle_calls > (SwitchRadiusMin - RadiusMin) \div 5

---------------------------------------------------------------------------
\* The threat-bias machine: PlayerTraining.bias_angle_away_from_enemy called
\* on one agent. Angles are in degrees; a distance is compared with a
\* threshold through its square.

\* The offsets enemy - self the function is called with: along the axes and
\* the diagonals, the distance on either side of both thresholds, and 0.
AxisReach ==
    {DesiredDistance - Margin - 1, DesiredDistance - Margin,
     DesiredDistance + Margin, DesiredDistance + Margin + 1}

\* 127 * sqrt(2) < 180 < 128 * sqrt(2) and 155 * sqrt(2) < 220 < 156 * sqrt(2)
DiagonalReach == {127, 128, 155, 156}

Offsets ==
    {<<0, 0>>}
    \cup {<<sx * d, 0>> : sx \in {-1, 1}, d \in AxisReach}
    \cup {<<0, sy * d>> : sy \in {-1, 1}, d \in AxisReach}
    \cup {<<o[1] * o[3], o[2] * o[3]>> : o \in {-1, 1} \X {-1, 1} \X DiagonalReach}

\* The base angles: what random.uniform(0, 2*pi) and math.atan2 can pass, on
\* either side of the half turn from the enemy angles and near the wrap.
BaseAngles == {-135, 0, 10, 179, 180, 350}

\* The positions of the agent
BiasPositions == {Pos(0, 0), Pos(300, 200)}

\* math.atan2(dy, dx) in degrees, in (-180, 180], for an offset along an axis
\* or a diagonal; math.atan2(0, 0) is 0.
Atan2Deg(dy, dx) ==
    IF dy = 0 THEN (IF dx >= 0 THEN 0 ELSE 180)
    ELSE IF dx = 0 THEN (IF dy > 0 THEN 90 ELSE -90)
    ELSE IF dy > 0 THEN (IF dx > 0 THEN 45 ELSE 135)
    ELSE (IF dx > 0 THEN -45 ELSE -135)

\* dist < t for dist = math.hypot(dx, dy)
DistBelow(dx, dy, t) == dx * dx + dy * dy < t * t

BiasStrengthInclusive(dx, dy) ==
    IF ~DistBelow(dx, dy, DesiredDistance - Margin) /\ dx * dx + dy * dy
         # (DesiredDistance - Margin) * (DesiredDistance - Margin)
    THEN (IF DistBelow(dx, dy, DesiredDistance + Margin) THEN 45 ELSE 15)
    ELSE 30

\* The bias magnitude by zone
BiasStrength(dx, dy) ==
    IF DistBelow(dx, dy, DesiredDistance - Margin) THEN 30
    ELSE IF ~DistBelow(dx, dy, DesiredDistance + Margin)
            /\ dx * dx + dy * dy
                 # (DesiredDistance + Margin) * (DesiredDistance + Margin)
    THEN 15
    ELSE 45

\* The function without its test for a coincident enemy
BiasAngleNoGuard(pos, enemy_x, enemy_y, base_angle) ==
    LET dx == enemy_x - pos.x
        dy == enemy_y - pos.y
        enemy_angle == Atan2Deg(dy, dx)
        bias_strength == BiasStrength(dx, dy)
        angle_diff == (base_angle - enemy_angle) % 360
        new_angle == IF angle_diff < 180 THEN base_angle + bias_strength
                     ELSE base_angle - bias_strength
    IN  new_angle % 360

\* bias_angle_away_from_enemy for an agent at pos
BiasAngleAwayFromEnemy(pos, enemy_x, enemy_y, base_angle) ==
    LET dx == enemy_x - pos.x
        dy == enemy_y - pos.y
        enemy_angle == Atan2Deg(dy, dx)
        bias_strength == BiasStrength(dx, dy)
        angle_diff == (base_angle - enemy_angle) % 360
        new_angle == IF angle_diff < 180 THEN base_angle + bias_strength
                     ELSE base_angle - bias_strength
    IN  IF dx = 0 /\ dy = 0 THEN (base_angle + 180) % 360
        ELSE new_angle % 360

\* A PlayerTraining somewhere on the screen
BiasStart == \E p \in BiasPositions : bias = BiasNew(p)

InitBias ==
    /\ BiasStart
    /\ EngagementIdle /\ PatternIdle /\ WrapIdle /\ FadeIdle /\ GameIdle
    /\ MoverIdle /\ SteerIdle /\ SessionIdle /\ HeadingIdle

\* One call: the function assigns no attribute of the agent.
BiasCall ==
    /\ \E o \in Offsets, b \in BaseAngles :
         LET ex == bias.position.x + o[1]
             ey == bias.position.y + o[2]
         IN  bias' = [bias EXCEPT
                        !.enemy = <<Pos(ex, ey)>>,
                        !.base_angle = <<b>>,
                        !.result = <<BiasAngleAwayFromEnemy(bias.position, ex, ey, b)>>,
                        !.op = "bias_angle_away_from_enemy"]
    /\ UNCHANGED notBias

NextBias == BiasCall

SpecBias == InitBias /\ [][NextBias]_vars

C23_Coincident ==
    (bias.op = "bias_angle_away_from_enemy" /\ bias.enemy = <<bias.position>>)
    => /\ bias.result = <<(bias.base_angle[1] + 180) % 360>>
       /\ bias.result[1] \in 0..359

\* A coincident call with a base angle beyond half a turn: 350 reversed is 170.
C23_Witness ==
    /\ bias.op = "bias_angle_away_from_enemy"
    /\ bias.enemy = <<bias.position>>
    /\ bias.base_angle = <<350>>
    /\ bias.result = <<170>>

---------------------------------------------------------------------------
\* Further claims about the training engagement.

\* Number of frames held for missile id in the map seqs
FramesOf(seqs, id) == IF id \in DOMAIN seqs THEN Len(seqs[id]) ELSE 0

\* C24: a training tick that leaves a tracked missile Active appends exactly
\* one frame to that missile's record, so that a missile active for n ticks
\* is finalized with n frames.
C24_RecordGrowth ==
    [][(/\ last_op' = "training_update"
        /\ last_tick'.kind = "Active"
        /\ last_tick'.id \in DOMAIN missile_sequences')
       => FramesOf(missile_sequences', last_tick'.id)
            = FramesOf(missile_sequences, last_tick'.id) + 1]_vars

---------------------------------------------------------------------------
\* The entry points called on a Game whose session was ended: the loop of
\* Game.run does not call update while the menu is shown, a caller of the
\* method can.

\* Game.update(current_time) called while the menu is shown, the clock at
\* the time of the last tick
DirectUpdate ==
    /\ Looping
    /\ game.menu_active
    /\ game.mode \in {"train", "play"}
    /\ \E keys \in GameKeys, a \in GameActions, v \in GuidanceVelocities,
          rp \in SpawnPositions, pp \in PlayerTrainingPositions,
          ep \in EnemyPositions, fire \in BOOLEAN, w \in AimedVelocities,
          life \in LifespanSamples(AimedLifespanMin, AimedLifespanMax) :
         game' = IF game.mode = "play"
                 THEN UpdatePlay(game, game.time, keys, a, v, rp)
                 ELSE UpdateTrain(game, game.time, pp, ep, fire, w, life)
    /\ game_op' = "update"
    /\ UNCHANGED notGame

NextEntry ==
    \/ NextGame
    \/ DirectUpdate

SpecEntry == InitGame /\ [][NextEntry]_vars

\* C25: an update called while player and enemy are absent changes no state
\* and raises no error, however often it is called.
C25_EmptySubjectNoOp ==
    [][(game_op' = "update" /\ ~game.has_player /\ ~game.has_enemy)
       => game' = game]_vars

---------------------------------------------------------------------------
\* The session machine: the events Game.handle_events answers and the end
\* of Game.run, with the DataLogger objects start_game creates.  The enemy
\* model of play mode loads.

\* DataLogger objects followed
MaxLoggers == 4

\* Game.start_game(mode): a training session gets a new DataLogger
StartGame(s, mode) ==
    IF mode = "train"
    THEN [s EXCEPT !.mode = mode, !.created = @ + 1, !.data_logger = s.created + 1]
    ELSE [s EXCEPT !.mode = mode]

\* Game.reset_game_state, as far as the logger goes
ResetLogger(s) == [s EXCEPT !.data_logger = 0]

\* Game.toggle_fullscreen: in a session the mode is restarted
ToggleFullscreen(s) ==
    LET s1 == [s EXCEPT !.fullscreen = ~@]
    IN  IF ~s1.menu_active THEN StartGame(ResetLogger(s1), s1.mode) ELSE s1

\* The end of Game.run: the logger at hand is saved if the mode is "train"
RunExit(s) ==
    [s EXCEPT !.saved = IF s.mode = "train" /\ s.data_logger # 0
                        THEN @ \cup {s.data_logger} ELSE @,
              !.exited = TRUE]

SessionLooping == session.running /\ ~session.exited

InitSession ==
    /\ session = SessionNew
    /\ EngagementIdle /\ PatternIdle /\ WrapIdle /\ FadeIdle /\ GameIdle
    /\ MoverIdle /\ SteerIdle /\ BiasIdle /\ HeadingIdle

\* "train" or "play" chosen in the menu
SessionSelect ==
    /\ SessionLooping
    /\ session.menu_active
    /\ \E mode \in {"train", "play"} :
         /\ mode = "train" => session.created < MaxLoggers
         /\ session' = [StartGame([session EXCEPT !.menu_active = FALSE], mode)
                          EXCEPT !.op = "select"]
    /\ UNCHANGED notSession

\* K_m in a session
SessionReturnToMenu ==
    /\ SessionLooping
    /\ ~session.menu_active
    /\ session' = [ResetLogger([session EXCEPT !.menu_active = TRUE])
                     EXCEPT !.op = "return_to_menu"]
    /\ UNCHANGED notSession

\* K_f: toggle_fullscreen, and in a session once more from the in-game keys
SessionFullscreen ==
    /\ SessionLooping
    /\ (~session.menu_active /\ session.mode = "train")
         => session.created + 2 <= MaxLoggers
    /\ LET s1 == ToggleFullscreen(session)
           s2 == IF ~s1.menu_active THEN ToggleFullscreen(s1) ELSE s1
       IN  session' = [s2 EXCEPT !.op = "fullscreen"]
    /\ UNCHANGED notSession

\* QUIT, K_ESCAPE in a session, or "exit" in the menu
SessionQuit ==
    /\ SessionLooping
    /\ session' = [session EXCEPT !.running = FALSE, !.op = "quit"]
    /\ UNCHANGED notSession

\* The loop of Game.run has ended
SessionExit ==
    /\ ~session.running
    /\ ~session.exited
    /\ session' = [RunExit(session) EXCEPT !.op = "exit"]
    /\ UNCHANGED notSession

NextSession ==
    \/ SessionSelect
    \/ SessionReturnToMenu
    \/ SessionFullscreen
    \/ SessionQuit
    \/ SessionExit

SpecSession == InitSession /\ [][NextSession]_vars

\* C26: when the loop of Game.run has ended, the data logger of every
\* training session that was started has been saved.
C26_SavedOnExit ==
    session.exited => \A k \in 1..session.created : k \in session.saved

\* C38: handling one KEYDOWN event for F flips the fullscreen setting to
\* the opposite value, in the menu and in a session, and in a session
\* restarts the mode exactly once (a training session gets one new
\* DataLogger).
C38_OneToggle ==
    [][session'.op = "fullscreen"
       => /\ session'.fullscreen = ~session.fullscreen
          /\ (~session.menu_active /\ session.mode = "train")
             => session'.created = session.created + 1]_vars

---------------------------------------------------------------------------
\* Further claims about the fade.

\* C33: in every state of an enemy, from construction on and after any
\* sequence of hide, show and update_fade_in, an enemy that is visible and
\* not fading in has alpha 255.
C33_SolidOpaque == (visible /\ ~fading_in) => alpha = 255

---------------------------------------------------------------------------
\* One EnemyTraining object with both its pattern attributes and its
\* visibility: update_movement and initiate_forced_escape next to hide and
\* show.

InitHidden ==
    /\ PatternStart /\ agent = "EnemyTraining"
    /\ FadeStart /\ fade_impl = "EnemyTraining"
    /\ EngagementIdle /\ WrapIdle /\ GameIdle /\ MoverIdle /\ RestIdle

\* show(current_time) with the clock at the time of construction
ShowAtStart == ShowTraining /\ fade_now' = fade_now

NextHidden ==
    \/ UpdateMovement
    \/ InitiateForcedEscape
    \/ Hide
    \/ ShowAtStart

SpecHidden == InitHidden /\ [][NextHidden]_vars

\* C32: update_movement called on a hidden enemy leaves the position and
\* the pattern state (state_timer, current_pattern, forced-escape timer) as
\* they were: no displacement function runs.
C32_HiddenStill ==
    [][(pattern_op' = "update_movement" /\ ~visible /\ ~visible')
       => /\ state_timer' = state_timer
          /\ current_pattern' = current_pattern
          /\ forced_escape_timer' = forced_escape_timer
          /\ last_move'.fn = "none"]_vars

---------------------------------------------------------------------------
\* Further claims about missiles in a training session.

\* C31: in a training tick that starts with the enemy hidden no missile is
\* resolved as Hit, no record is finalized with success = true and the
\* respawn routine is not invoked again.
C31_HiddenNotHit ==
    [][(last_op' = "training_update" /\ ~enemy_visible)
       => /\ last_tick'.kind # "Hit"
          /\ respawn_calls' = respawn_calls
          /\ \A i \in (Len(finalize_log) + 1)..Len(finalize_log') :
               finalize_log'[i][2] = FALSE]_vars

\* The engagement machine under a clock that keeps advancing and a missile
\* step that keeps running.  The clock is followed up to MaxClock: only
\* missiles whose lifespan ends by then are shot.
LiveShot ==
    \A i \in 1..Len(missiles') :
      missiles'[i].birth_time + missiles'[i].lifespan
        <= (MaxClock \div ClockStep) * ClockStep

KeyShootLive == KeyShoot /\ LiveShot

TrainingUpdateLive == TrainingUpdate /\ LiveShot

TrainingShootLive == TrainingShootDirect /\ LiveShot

NextLive ==
    \/ AdvanceClock
    \/ KeyShootLive
    \/ PlayUpdateMissiles
    \/ ResetPlayer
    \/ TrainingUpdateLive
    \/ TrainingShootLive
    \/ TrainingUpdateMissiles
    \/ TrainingReset

SpecLive ==
    /\ InitEngagement
    /\ [][NextLive]_vars
    /\ WF_vars(AdvanceClock)
    /\ WF_vars(PlayUpdateMissiles)
    /\ WF_vars(TrainingUpdateMissiles)
    /\ WF_vars(TrainingUpdateLive)

ExpiredIds ==
    {missiles[i].id : i \in {j \in 1..Len(missiles) :
        clock - missiles[j].birth_time >= missiles[j].lifespan}}

\* C34: with a clock that advances and a missile step that runs every tick,
\* every missile in the list is eventually out of it (the list holds one
\* missile at most, and whenever it holds one it is empty again later); the
\* first missile step at a time with now - birth_time >= lifespan removes
\* the missile; and a shoot_missile call on the emptied list appends one.
C34_MissileLiveness ==
    /\ [](Len(missiles) <= 1)
    /\ (ListedIds # {}) ~> (ListedIds = {})
    /\ [][/\ last_op' \in {"update_missiles", "training_update"}
             => \A id \in ExpiredIds :
                  id \notin {missiles'[i].id : i \in 1..Len(missiles')}
          /\ (last_op' = "shoot" /\ Len(missiles) = 0)
             => (Len(missiles') = 1 /\ missiles'[1].id = next_id)]_vars

\* The second missile of a play-mode player, shot after the first was
\* removed, has expired and been removed in turn.
C34_Witness ==
    /\ shooter = "PlayerPlay"
    /\ last_op = "update_missiles"
    /\ last_tick.kind = "Expired"
    /\ last_tick.id = 2
    /\ Len(missiles) = 0

\* C35: TrainingMode.update spawns a missile only in a tick whose decremented
\* cool-down is <= 0 and whose list is empty; a spawn sets missile_cooldown
\* to 120, every other tick lowers a positive cool-down by one, so a spawn
\* comes no sooner than the 120th tick after the spawn before it (the
\* cool-down it finds is 1 at most) and missile_cooldown stays in 0..120.
C35_FireRate ==
    /\ [](missile_cooldown \in 0..CooldownTicks)
    /\ [][last_op' = "training_update"
          => LET cd0 == IF missile_cooldown > 0 THEN missile_cooldown - 1
                        ELSE missile_cooldown
             IN  IF next_id' > next_id
                 THEN /\ missile_cooldown <= 1
                      /\ cd0 <= 0
                      /\ Len(missiles) = 0
                      /\ missile_cooldown' = CooldownTicks
                 ELSE missile_cooldown' = cd0]_vars

\* The tick of the second spawn: the cool-down of the first has run out and
\* is set again.
C35_Witness ==
    /\ managed
    /\ last_op = "training_update"
    /\ next_id = 3
    /\ missile_cooldown = CooldownTicks

\* C36: after every TrainingMode.update the keys of missile_lifespan and the
\* keys of missile_sequences are both the set of missiles in player.missiles:
\* a removed missile has no entry left in either map and every live missile
\* is tracked in both.
C36_TrackingConsistent ==
    (shooter = "PlayerTraining" /\ managed /\ last_op = "training_update")
    => /\ DOMAIN missile_lifespan = ListedIds
       /\ DOMAIN missile_sequences = ListedIds

\* The first missile was finalized and removed, the second is live and
\* tracked.
C36_Witness ==
    /\ managed
    /\ last_op = "training_update"
    /\ LoggedIds = {1}
    /\ ListedIds = {2}
    /\ DOMAIN missile_lifespan = {2}
    /\ DOMAIN missile_sequences = {2}

---------------------------------------------------------------------------
\* The heading machine: the headings PlayerTraining stores for its patterns
\* (random_walk_angle, diagonal_direction) under calls of random_walk_pattern,
\* diagonal_pattern and switch_pattern.  Angles are in degrees.  The enemy is
\* given by its offset from the agent; the displacement of a call is held as
\* the angle whose unit vector is handed to move_with_velocity.  The circle
\* pattern stores no heading; its calls are those of the steer machine.

\* random.uniform(0, 2*pi), in degrees
RandomWalkAngles == {10, 350}

\* random.randint(30, 90)
RandomWalkTimers == {30, 90}

\* random.uniform(-0.3, 0.3) radians is within 17.19 degrees either way
DiagonalPerturbations == {-15, 15}

\* the angles of (dx, dy) with dx, dy in {-1, 1}
DiagonalStarts == {45, 135, 225, 315}

\* The enemy relative to the agent: on it, closer than 180, between 180 and
\* 220, farther than 220.
HeadingOffsets == {<<0, 0>>, <<100, 0>>, <<200, 0>>, <<0, 300>>}

\* math.atan2 of the unit vector of angle a: the angle in (-180, 180]
AngleOfDirection(a) == IF a % 360 > 180 THEN (a % 360) - 360 ELSE a % 360

\* PlayerTraining.switch_pattern: the objects it can leave
HeadingSwitchRecords(h) ==
    {[h EXCEPT !.current_pattern = p,
               !.diagonal_direction = IF p = "diagonal_move" THEN d ELSE @,
               !.moved = <<>>,
               !.event = "switch_pattern",
               !.op = "switch_pattern"] :
       p \in PATTERNS("PlayerTraining") \ {h.current_pattern}, d \in DiagonalStarts}

\* PlayerTraining.random_walk_pattern with the enemy at offset o; a and t are
\* the angle and the timer a resample draws.
RandomWalkPattern(h, o, a, t) ==
    LET resample == h.random_walk_timer <= 0
        angle1 == IF resample THEN a ELSE h.random_walk_angle
        timer1 == IF resample THEN t ELSE h.random_walk_timer - 1
        angle == BiasAngleAwayFromEnemy(Pos(0, 0), o[1], o[2], angle1)
    IN  [h EXCEPT !.random_walk_angle = angle1,
                  !.random_walk_timer = timer1,
                  !.moved = <<angle>>,
                  !.event = IF resample THEN "resample" ELSE "none",
                  !.op = "random_walk_pattern"]

\* PlayerTraining.diagonal_pattern with the enemy at offset o; perturb is the
\* outcome of random.random() < 0.02 and d the perturbation it adds.
DiagonalPattern(h, o, perturb, d) ==
    LET dir1 == IF perturb
                THEN (AngleOfDirection(h.diagonal_direction) + d) % 360
                ELSE h.diagonal_direction
        base_angle == AngleOfDirection(dir1)
        final_angle == BiasAngleAwayFromEnemy(Pos(0, 0), o[1], o[2], base_angle)
    IN  [h EXCEPT !.diagonal_direction = final_angle,
                  !.moved = <<final_angle>>,
                  !.event = IF perturb THEN "perturbation" ELSE "none",
                  !.op = "diagonal_pattern"]

\* PlayerTraining.__init__: the constructor ends with switch_pattern
HeadingStart == heading \in HeadingSwitchRecords(HeadingNew)

InitHeading ==
    /\ HeadingStart
    /\ EngagementIdle /\ PatternIdle /\ WrapIdle /\ FadeIdle /\ GameIdle
    /\ MoverIdle /\ SteerIdle /\ BiasIdle /\ SessionIdle

HeadingSwitchPattern ==
    /\ heading' \in HeadingSwitchRecords(heading)
    /\ UNCHANGED notHeading

\* PlayerTraining.update calls random_walk_pattern below distance 180 whatever
\* the pattern, and from 180 on when the pattern is random_walk.
HeadingRandomWalk ==
    /\ \E o \in HeadingOffsets, a \in RandomWalkAngles, t \in RandomWalkTimers :
         /\ DistBelow(o[1], o[2], DesiredDistance - Margin)
            \/ heading.current_pattern = "random_walk"
         /\ heading' = RandomWalkPattern(heading, o, a, t)
    /\ UNCHANGED notHeading

\* PlayerTraining.update calls diagonal_pattern from distance 180 on when the
\* pattern is diagonal_move.
HeadingDiagonal ==
    /\ heading.current_pattern = "diagonal_move"
    /\ \E o \in HeadingOffsets, perturb \in BOOLEAN, d \in DiagonalPerturbations :
         /\ ~DistBelow(o[1], o[2], DesiredDistance - Margin)
         /\ heading' = DiagonalPattern(heading, o, perturb, d)
    /\ UNCHANGED notHeading

NextHeading == HeadingSwitchPattern \/ HeadingRandomWalk \/ HeadingDiagonal

SpecHeading == InitHeading /\ [][NextHeading]_vars

\* C37: the threat bias does not rewrite the stored headings: a call of
\* random_walk_pattern or diagonal_pattern in which no resample and no
\* perturbation happens leaves random_walk_angle and diagonal_direction as
\* they were before the call.
C37_StoredHeadingKept ==
    [][(heading'.op \in {"random_walk_pattern", "diagonal_pattern"}
        /\ heading'.event = "none")
       => /\ heading'.random_walk_angle = heading.random_walk_angle
          /\ heading'.diagonal_direction = heading.diagonal_direction]_vars

====
